---- MODULE Spec2Model ----
(***************************************************************************)
(* Context-augmented chat pipeline of Verse (backend/app/services):        *)
(* the streaming chat turns of ChatService, the request-scoped database    *)
(* session of get_db, and the retrieval / expansion / summary engine of    *)
(* RagService, over one shared relational store.                           *)
(*                                                                         *)
(* Text is a sequence of tokens (a Python str); the empty text is <<>>.    *)
(* An embedding is <<>> (SQL NULL) or a one-component vector <<n>>.        *)
(***************************************************************************)
EXTENDS Integers, Sequences, FiniteSets, TLC

\* ------------------------------------------------------------------ bounds
MaxDeltas == 1      \* text deltas the provider emits in one stream
MaxChunks == 2      \* ... in one stream of the single-user behaviours
MaxTime == 1        \* ticks of the database clock
MaxPairs == 4       \* turns of the conversation the expander is applied to
MaxCodes == 4       \* device link codes generated in a behaviour
MaxCalls == 11      \* track_llm_call calls for one user and day
MaxLinkTime == 5    \* minutes the clock runs while devices are linked

Users == {1, 2}
\* the streaming calls of a behaviour, numbered as they start: a first call
\* and a follow-up
Turns == {1, 2}
Insights == {1, 2}
\* one request in flight per user: the session of user u is session u
Sessions == Users
\* rows of the user_insights link table: <<user_id, insight_id>>
UserInsights == {<<1, 1>>, <<1, 2>>, <<2, 1>>}
\* text deltas of the provider's text_stream
Deltas == {<<>>, <<"a">>}
\* ... of the single-user behaviours: two different texts
Chunks == {<<>>, <<"a">>, <<"b">>}
\* the message a user submits
UserMessages == {<<"q">>}

\* ------------------------------------------------------- program constants
CHAT_ID_MARKER == "__CHAT_ID__:"
MAX_CHAT_TITLE_LENGTH == 50
RAG_CONTEXT_LIMIT == 5
LINK_CODE_EXPIRY_MINUTES == 5
MAX_ACTIVE_CODES_PER_USER == 3
FREE_USER_DAILY_LIMIT == 10
RAG_SURROUNDING_MESSAGES == 2
RAG_SUMMARY_MAX_MESSAGES == 50
SUMMARY_CONTENT_LENGTH == 200               \* msg.content[:200]

NoReason == "none"                          \* stop_reason = None
StopReasons == {"end_turn", "max_tokens"}
\* ... of the single-user behaviours
AllStopReasons == StopReasons \cup {"stop_sequence"}
NoEmbedding == <<>>                         \* embedding IS NULL
NoUser == 0                                 \* table without a user_id column

VARIABLES
    messages,          \* committed rows of chat_messages and standalone_chat_messages
    chats,             \* committed rows of standalone_chats
    summaries,         \* committed rows of conversation_summaries
    nextMsgId,         \* primary-key sequence of the message tables
    nextChatId,        \* primary-key sequence of standalone_chats
    now,               \* database clock (func.now())
    embedding_client,  \* ChatService.embedding_client is configured
    turns,             \* streaming calls started so far
    pc,                \* per session: where the service generator is suspended
    req,               \* per session: arguments of the running call
    turn,              \* per session: number of the running call
    pending,           \* per session: standalone_chats rows flushed, not committed
    tx_aborted,        \* per session: a statement failed in the open transaction
    rag_context,       \* per session: rag_context handed to the provider
    emitted,           \* per session: pairs the provider stream has produced
    complete_response, \* per session: the buffer of the generator
    stop_reason,       \* per session: stop_reason local of the generator
    out,               \* per session: pairs yielded to the caller
    llm,               \* per session: the provider stream was opened
    outcome,           \* per session: how the call ended
    pre,               \* per session: the conversation's messages at call entry
    rag_call,          \* arguments of the last get_enhanced_rag_context call
    relevant_messages, \* what _get_relevant_messages returned in that call
    merged_contexts,   \* the MergedRagContext list that call returned
    summary_call,      \* per caller of the summary cache: the call in progress
    returned,          \* the summary call that returned last
    deleted,           \* the last delete_standalone_chat call and what it returned
    backfill,          \* the embedding backfill: the rows it read, where it is
    users,             \* committed rows of users
    link_codes,        \* committed rows of device_link_codes
    nextLinkId,        \* primary-key sequence of device_link_codes
    link_call,         \* the last call of the device link service and how it ended
    accepted,          \* per display code: how often validate_and_use_code accepted it
    usage_tracking,    \* committed rows of usage_tracking
    tracked            \* per user and day: track_llm_call calls made

store == <<messages, chats, nextMsgId, nextChatId>>
rag == <<summaries, rag_call, relevant_messages, merged_contexts,
         summary_call, returned>>
calls == <<pc, req, turn, pending, tx_aborted, rag_context, emitted, complete_response,
           stop_reason, out, llm, outcome, pre>>
quota == <<usage_tracking, tracked>>
maint == <<deleted, backfill, quota>>
link == <<users, link_codes, nextLinkId, link_call, accepted>>
vars == <<store, now, embedding_client, turns, calls, rag, maint, link>>

\* ----------------------------------------------------------------- helpers
Abs(n) == IF n < 0 THEN 0 - n ELSE n

Min(a, b) == IF a < b THEN a ELSE b

\* user_message[:n]
Prefix(text, n) == SubSeq(text, 1, Min(n, Len(text)))

\* EmbeddingClient.get_embedding: an opaque, deterministic text -> vector map
get_embedding(text) == <<Len(text)>>

\* pgvector cosine_distance, on the one-component vectors of the model
cosine_distance(e, q) == Abs(e[1] - q[1])

\* user_insights link: the insight is in the user's history
InsightLinked(user_id, insight_id) == <<user_id, insight_id>> \in UserInsights

\* the lookup by id alone
ChatById(chat_id, user_id) ==
    {c \in chats : c.id = chat_id}

\* db.query(StandaloneChat).filter(id == chat_id, user_id == user_id).first()
OwnedChat(chat_id, user_id) ==
    {c \in chats : c.id = chat_id /\ c.user_id = user_id}

\* the user a message row belongs to: chat_messages.user_id, or the
\* user_id of the joined standalone_chats row
Owner(m) ==
    IF m.kind = "insight" THEN m.user_id
    ELSE IF \E c \in chats : c.id = m.conv
         THEN (CHOOSE c \in chats : c.id = m.conv).user_id
         ELSE NoUser

\* ------------------------------------------- retrieval inside ChatService
\* ORDER BY ... DESC: the farthest row first
Farthest(S, q) ==
    CHOOSE m \in S : \A x \in S :
        cosine_distance(m.embedding, q) >= cosine_distance(x.embedding, q)

\* ORDER BY embedding <=> query_vector LIMIT limit; rows at the same
\* distance come in an order the database picks
Nearest(S, q) ==
    CHOOSE m \in S : \A x \in S :
        cosine_distance(m.embedding, q) <= cosine_distance(x.embedding, q)

RECURSIVE OrderByDistance(_, _, _)
OrderByDistance(S, q, limit) ==
    IF S = {} \/ limit <= 0 THEN <<>>
    ELSE LET m == Nearest(S, q)
         IN  <<m>> \o OrderByDistance(S \ {m}, q, limit - 1)

\* ChatService._get_relevant_context; ok = the embedding provider answered
\* and the query ran; current_insight_id = 0 stands for None
_get_relevant_context(user_id, query, current_insight_id, limit, ok) ==
    IF ~embedding_client THEN <<>>
    ELSE IF ~ok THEN <<>>
    ELSE LET query_vector == get_embedding(query)
             stmt == {m \in messages :
                        /\ m.kind = "insight"
                        /\ m.user_id = user_id
                        /\ m.embedding # NoEmbedding
                        /\ (current_insight_id # 0 => m.conv # current_insight_id)}
         IN  OrderByDistance(stmt, query_vector, limit)

\* ChatService._get_relevant_standalone_context
_get_relevant_standalone_context(user_id, query, current_chat_id, limit, ok) ==
    IF ~embedding_client THEN <<>>
    ELSE IF ~ok THEN <<>>
    ELSE LET query_vector == get_embedding(query)
             stmt == {m \in messages :
                        /\ m.kind = "standalone"
                        /\ \E c \in chats : c.id = m.conv /\ c.user_id = user_id
                        /\ m.embedding # NoEmbedding
                        /\ (current_chat_id # 0 => m.conv # current_chat_id)}
         IN  OrderByDistance(stmt, query_vector, limit)

\* ------------------------------------------------------ listing operations
\* ChatService.get_chat_messages (as a set; ordering is by created_at)
get_chat_messages(insight_id, user_id) ==
    {m \in messages : m.kind = "insight" /\ m.conv = insight_id /\ m.user_id = user_id}

\* ChatService.get_standalone_chat_messages
get_standalone_chat_messages(chat_id, user_id) ==
    IF OwnedChat(chat_id, user_id) = {} THEN {}
    ELSE {m \in messages : m.kind = "standalone" /\ m.conv = chat_id}

\* ChatService.get_standalone_chats (as a set; ordering is by updated_at)
get_standalone_chats(user_id) == {c \in chats : c.user_id = user_id}

\* .order_by(created_at).all(): every list the database may return, the
\* rows by non-decreasing created_at, rows of one timestamp in any order
order_by_created_at(rows) ==
    {L \in [1..Cardinality(rows) -> rows] :
        \A j, k \in 1..Cardinality(rows) :
            j < k => (L[j] # L[k] /\ L[j].created_at <= L[k].created_at)}

\* --------------------------------------------------------- streaming calls
\* at: the timestamp of the request's transaction, which func.now() returns
\* in every statement of it
NoReq == [variant |-> "none", user_id |-> 0, conv |-> 0, user_message |-> <<>>, at |-> 0]

Idle(s) == pc[s] = "idle"

\* title = user_message[:50] + ("..." if len(user_message) > 50 else "")
Title(user_message) ==
    Prefix(user_message, MAX_CHAT_TITLE_LENGTH)
        \o (IF Len(user_message) > MAX_CHAT_TITLE_LENGTH THEN <<"...">> ELSE <<>>)

\* the database clock at the first statement of a request's transaction:
\* time has passed since the previous request, or not measurably
Clock == {t \in {now, now + 1} : t <= MaxTime}

\* how the retrieval of a call went: it ran; the embedding provider or the
\* query raised and the transaction stayed usable (SQLite, or an error
\* before any SQL was sent); the query raised and the database aborted the
\* open transaction (PostgreSQL, the configured default). The except branch
\* of the retrieval returns [] in the last two cases and does not roll back
RetrievalOutcomes == {"ok", "failed", "aborted"}

\* what a call starts from: fresh locals, a new call number
Enter(s, t, r, ctx, before, flushed, aborted, next, how) ==
    /\ turns + 1 \in Turns
    /\ now' = t
    /\ turns' = turns + 1
    /\ turn' = [turn EXCEPT ![s] = turns + 1]
    /\ req' = [req EXCEPT ![s] = r]
    /\ rag_context' = [rag_context EXCEPT ![s] = ctx]
    /\ pre' = [pre EXCEPT ![s] = before]
    /\ pending' = [pending EXCEPT ![s] = flushed]
    /\ tx_aborted' = [tx_aborted EXCEPT ![s] = aborted]
    /\ emitted' = [emitted EXCEPT ![s] = <<>>]
    /\ complete_response' = [complete_response EXCEPT ![s] = <<>>]
    /\ stop_reason' = [stop_reason EXCEPT ![s] = NoReason]
    /\ out' = [out EXCEPT ![s] = <<>>]
    /\ llm' = [llm EXCEPT ![s] = FALSE]
    /\ outcome' = [outcome EXCEPT ![s] = how]
    /\ pc' = [pc EXCEPT ![s] = next]

\* an entry whose retrieval leaves a flushed row in the session
send_message_stream_flushing(s, t, user_id, insight_id, user_message, retrieval) ==
    /\ Idle(s)
    /\ Enter(s, t, [variant |-> "insight", user_id |-> user_id, conv |-> insight_id,
                 user_message |-> user_message, at |-> t],
             <<>>, get_chat_messages(insight_id, user_id),
             {[id |-> nextChatId, user_id |-> user_id,
               title |-> Title(user_message), updated_at |-> t]},
             embedding_client /\ retrieval = "aborted", "generating", "none")
    /\ UNCHANGED <<store, embedding_client, maint, link, rag>>

\* send_message_stream up to the provider call: history, then retrieval
send_message_stream(s, t, user_id, insight_id, user_message, retrieval) ==
    /\ Idle(s)
    /\ Enter(s, t, [variant |-> "insight", user_id |-> user_id, conv |-> insight_id,
                 user_message |-> user_message, at |-> t],
             IF embedding_client
             THEN _get_relevant_context(user_id, user_message, insight_id,
                                        RAG_CONTEXT_LIMIT, retrieval = "ok")
             ELSE <<>>,
             get_chat_messages(insight_id, user_id), {},
             embedding_client /\ retrieval = "aborted", "generating", "none")
    /\ UNCHANGED <<store, embedding_client, maint, link, rag>>

\* send_standalone_message_stream up to the provider call: the ownership
\* check raises ValueError before anything else happens
send_standalone_message_stream(s, t, user_id, chat_id, user_message, retrieval) ==
    /\ Idle(s)
    /\ LET r == [variant |-> "standalone", user_id |-> user_id, conv |-> chat_id,
                 user_message |-> user_message, at |-> t]
           before == {m \in messages : m.kind = "standalone" /\ m.conv = chat_id}
       IN  IF OwnedChat(chat_id, user_id) = {}
           THEN Enter(s, t, r, <<>>, before, {}, FALSE, "ended", "raised")
           ELSE Enter(s, t, r,
                      IF embedding_client
                      THEN _get_relevant_standalone_context(user_id, user_message,
                                                chat_id, RAG_CONTEXT_LIMIT, retrieval = "ok")
                      ELSE <<>>,
                      before, {}, embedding_client /\ retrieval = "aborted",
                      "generating", "none")
    /\ UNCHANGED <<store, embedding_client, maint, link, rag>>

\* create_standalone_chat_stream up to the provider call: the chat row is
\* added and flushed (it has an id), the title is set, nothing is committed
create_standalone_chat_stream(s, t, user_id, user_message) ==
    /\ Idle(s)
    /\ Enter(s, t, [variant |-> "create", user_id |-> user_id, conv |-> nextChatId,
                 user_message |-> user_message, at |-> t],
             <<>>, {},
             {[id |-> nextChatId, user_id |-> user_id,
               title |-> Title(user_message), updated_at |-> t]},
             FALSE, "generating", "none")
    /\ nextChatId' = nextChatId + 1
    /\ UNCHANGED <<messages, chats, nextMsgId, embedding_client, maint, link, rag>>

\* text deltas the provider has produced in this stream
DeltaCount(s) == Cardinality({i \in 1..Len(emitted[s]) : emitted[s][i][2] = NoReason})

\* a loop whose buffer is one module-level string shared by all calls
StreamChunkSharedBuffer(s, chunk) ==
    /\ pc[s] = "generating"
    /\ emitted' = [emitted EXCEPT ![s] = Append(@, <<chunk, NoReason>>)]
    /\ llm' = [llm EXCEPT ![s] = TRUE]
    /\ IF chunk # <<>>
       THEN /\ complete_response' =
                  [o \in Sessions |-> IF Idle(o) THEN complete_response[o]
                                      ELSE complete_response[o] \o chunk]
            /\ out' = [out EXCEPT ![s] = Append(@, <<chunk, NoReason>>)]
            /\ pc' = [pc EXCEPT ![s] = "tok"]
       ELSE UNCHANGED <<complete_response, out, pc>>
    /\ UNCHANGED <<rag, store, now, embedding_client, maint, link, turns, req, turn, pending, tx_aborted,
                   rag_context, stop_reason, outcome, pre>>

\* a loop that keeps the last chunk instead of appending to the buffer
StreamChunkKeepsLast(s, chunk) ==
    /\ pc[s] = "generating"
    /\ emitted' = [emitted EXCEPT ![s] = Append(@, <<chunk, NoReason>>)]
    /\ llm' = [llm EXCEPT ![s] = TRUE]
    /\ IF chunk # <<>>
       THEN /\ complete_response' = [complete_response EXCEPT ![s] = chunk]
            /\ out' = [out EXCEPT ![s] = Append(@, <<chunk, NoReason>>)]
            /\ pc' = [pc EXCEPT ![s] = "tok"]
       ELSE UNCHANGED <<complete_response, out, pc>>
    /\ UNCHANGED <<rag, store, now, embedding_client, maint, link, turns, req, turn, pending, tx_aborted,
                   rag_context, stop_reason, outcome, pre>>

\* one iteration of `async for chunk, chunk_stop_reason in ...stream(...)`
\* on a text delta: a non-empty chunk is buffered and yielded, an empty one
\* is dropped and the loop asks for the next pair
StreamChunk(s, chunk) ==
    /\ pc[s] = "generating"
    /\ emitted' = [emitted EXCEPT ![s] = Append(@, <<chunk, NoReason>>)]
    /\ llm' = [llm EXCEPT ![s] = TRUE]
    /\ IF chunk # <<>>
       THEN /\ complete_response' = [complete_response EXCEPT ![s] = @ \o chunk]
            /\ out' = [out EXCEPT ![s] = Append(@, <<chunk, NoReason>>)]
            /\ pc' = [pc EXCEPT ![s] = "tok"]
       ELSE UNCHANGED <<complete_response, out, pc>>
    /\ UNCHANGED <<rag, store, now, embedding_client, maint, link, turns, req, turn, pending, tx_aborted,
                   rag_context, stop_reason, outcome, pre>>

\* the caller asks for the next pair after a token
Resume(s) ==
    /\ pc[s] = "tok"
    /\ pc' = [pc EXCEPT ![s] = "generating"]
    /\ UNCHANGED <<rag, store, now, embedding_client, maint, link, turns, req, turn, pending, tx_aborted,
                   rag_context, emitted, complete_response, stop_reason, out,
                   llm, outcome, pre>>

\* the provider yields its last pair ("", stop_reason) and the stream ends
StreamEnd(s, reason) ==
    /\ pc[s] = "generating"
    /\ emitted' = [emitted EXCEPT ![s] = Append(@, <<<<>>, reason>>)]
    /\ llm' = [llm EXCEPT ![s] = TRUE]
    /\ stop_reason' = [stop_reason EXCEPT ![s] = reason]
    /\ pc' = [pc EXCEPT ![s] = "persisting"]
    /\ UNCHANGED <<rag, store, now, embedding_client, maint, link, turns, req, turn, pending, tx_aborted,
                   rag_context, complete_response, out, outcome, pre>>

\* what the two get_embedding calls of the Persisting step left behind:
\* both answered, the second raised, or the first raised (or no client)
EmbeddingOutcomes == {"both", "user_only", "neither"}

user_embedding(s, e) ==
    IF embedding_client /\ e \in {"both", "user_only"}
    THEN get_embedding(req[s].user_message) ELSE NoEmbedding

ai_embedding(s, e) ==
    IF embedding_client /\ e = "both"
    THEN get_embedding(complete_response[s]) ELSE NoEmbedding

\* the ChatMessage / StandaloneChatMessage row of the user's message
user_msg(s, e) ==
    [id |-> nextMsgId,
     kind |-> IF req[s].variant = "insight" THEN "insight" ELSE "standalone",
     conv |-> req[s].conv,
     user_id |-> IF req[s].variant = "insight" THEN req[s].user_id ELSE NoUser,
     role |-> "user",
     content |-> req[s].user_message,
     was_truncated |-> FALSE,
     created_at |-> req[s].at,
     embedding |-> user_embedding(s, e),
     turn |-> turn[s]]

\* a reply row flagged whenever the stream reported a stop reason
ai_msg_flags_any_stop(s, e) ==
    [id |-> nextMsgId + 1,
     kind |-> IF req[s].variant = "insight" THEN "insight" ELSE "standalone",
     conv |-> req[s].conv,
     user_id |-> IF req[s].variant = "insight" THEN req[s].user_id ELSE NoUser,
     role |-> "assistant",
     content |-> complete_response[s],
     was_truncated |-> (stop_reason[s] # NoReason),
     created_at |-> req[s].at,
     embedding |-> ai_embedding(s, e),
     turn |-> turn[s]]

\* the row of the assistant's reply
ai_msg(s, e) ==
    [id |-> nextMsgId + 1,
     kind |-> IF req[s].variant = "insight" THEN "insight" ELSE "standalone",
     conv |-> req[s].conv,
     user_id |-> IF req[s].variant = "insight" THEN req[s].user_id ELSE NoUser,
     role |-> "assistant",
     content |-> complete_response[s],
     was_truncated |-> (stop_reason[s] = "max_tokens"),
     created_at |-> req[s].at,
     embedding |-> ai_embedding(s, e),
     turn |-> turn[s]]

\* the user's row alone
AddedRowsUserOnly(s, e) == {user_msg(s, e)}

\* db.add(user_msg); db.add(ai_msg): the rows the commit will write
AddedRows(s, e) == {user_msg(s, e), ai_msg(s, e)}

\* chat.updated_at = func.now() (send_standalone_message_stream only)
BumpUpdatedAt(s) ==
    IF req[s].variant = "standalone"
    THEN {IF c.id = req[s].conv THEN [c EXCEPT !.updated_at = req[s].at] ELSE c : c \in chats}
    ELSE chats

\* db.commit(): everything the session holds becomes visible at once
Commit(s, rows) ==
    /\ messages' = messages \cup rows
    /\ chats' = BumpUpdatedAt(s) \cup pending[s]
    /\ pending' = [pending EXCEPT ![s] = {}]
    /\ tx_aborted' = [tx_aborted EXCEPT ![s] = FALSE]
    /\ nextMsgId' = nextMsgId + 2

\* a create variant that puts the stop reason on the chat-id marker
AfterCommitReasonOnMarker(s) ==
    IF req[s].variant = "create"
    THEN <<<<CHAT_ID_MARKER, ToString(req[s].conv)>>, stop_reason[s]>>
    ELSE <<<<>>, stop_reason[s]>>

\* the pair yielded right after the commit: the chat-id marker in
\* create_standalone_chat_stream, the final pair in the two send variants
AfterCommit(s) ==
    IF req[s].variant = "create"
    THEN <<<<CHAT_ID_MARKER, ToString(req[s].conv)>>, NoReason>>
    ELSE <<<<>>, stop_reason[s]>>

\* a pipeline that writes the user's message before it streams and leaves it
\* there when the stream fails
StreamRaiseKeepsUserMessage(s) ==
    /\ pc[s] = "generating"
    /\ llm' = [llm EXCEPT ![s] = TRUE]
    /\ messages' = messages \cup {user_msg(s, "neither")}
    /\ nextMsgId' = nextMsgId + 1
    /\ pending' = [pending EXCEPT ![s] = {}]
    /\ tx_aborted' = [tx_aborted EXCEPT ![s] = FALSE]
    /\ outcome' = [outcome EXCEPT ![s] = "raised"]
    /\ pc' = [pc EXCEPT ![s] = "ended"]
    /\ UNCHANGED <<rag, chats, nextChatId, now, embedding_client, maint, link, turns, req, turn,
                   rag_context, emitted, complete_response, stop_reason, out, pre>>

\* an except branch that re-raises without db.rollback()
StreamRaiseNoRollback(s) ==
    /\ pc[s] = "generating"
    /\ llm' = [llm EXCEPT ![s] = TRUE]
    /\ outcome' = [outcome EXCEPT ![s] = "raised"]
    /\ pc' = [pc EXCEPT ![s] = "ended"]
    /\ UNCHANGED <<rag, store, now, embedding_client, maint, link, turns, req, turn, pending, tx_aborted,
                   rag_context, emitted, complete_response, stop_reason, out, pre>>

\* the provider stream raises: except Exception -> db.rollback(); raise
StreamRaise(s) ==
    /\ pc[s] = "generating"
    /\ llm' = [llm EXCEPT ![s] = TRUE]
    /\ pending' = [pending EXCEPT ![s] = {}]
    /\ tx_aborted' = [tx_aborted EXCEPT ![s] = FALSE]
    /\ outcome' = [outcome EXCEPT ![s] = "raised"]
    /\ pc' = [pc EXCEPT ![s] = "ended"]
    /\ UNCHANGED <<rag, store, now, embedding_client, maint, link, turns, req, turn, rag_context,
                   emitted, complete_response, stop_reason, out, pre>>

\* a Persisting step that yields its pair and leaves the commit for later
PersistTurnYieldsFirst(s, e) ==
    /\ pc[s] = "persisting"
    /\ out' = [out EXCEPT ![s] = Append(@, AfterCommit(s))]
    /\ pc' = [pc EXCEPT ![s] = IF req[s].variant = "create" THEN "marker" ELSE "fin"]
    /\ UNCHANGED <<rag, store, pending, tx_aborted, now, embedding_client, maint, link, turns, req, turn,
                   rag_context, emitted, complete_response, stop_reason, llm,
                   outcome, pre>>

\* a Persisting step that lets a get_embedding error reach the except branch
PersistTurnEmbeddingFatal(s, e) ==
    /\ pc[s] = "persisting"
    /\ IF embedding_client /\ e # "both"
       THEN /\ pending' = [pending EXCEPT ![s] = {}]
            /\ tx_aborted' = [tx_aborted EXCEPT ![s] = FALSE]
            /\ outcome' = [outcome EXCEPT ![s] = "raised"]
            /\ pc' = [pc EXCEPT ![s] = "ended"]
            /\ UNCHANGED <<messages, chats, nextMsgId, out>>
       ELSE /\ Commit(s, AddedRows(s, e))
            /\ out' = [out EXCEPT ![s] = Append(@, AfterCommit(s))]
            /\ pc' = [pc EXCEPT ![s] = IF req[s].variant = "create" THEN "marker" ELSE "fin"]
            /\ UNCHANGED outcome
    /\ UNCHANGED <<rag, nextChatId, now, embedding_client, maint, link, turns, req, turn, rag_context,
                   emitted, complete_response, stop_reason, llm, pre>>

\* a Persisting step that re-opens the provider stream when its commit fails
PersistTurnRetries(s, e) ==
    /\ pc[s] = "persisting"
    /\ IF tx_aborted[s]
       THEN /\ pending' = [pending EXCEPT ![s] = {}]
            /\ tx_aborted' = [tx_aborted EXCEPT ![s] = FALSE]
            /\ pc' = [pc EXCEPT ![s] = "generating"]
            /\ UNCHANGED <<messages, chats, nextMsgId, out, outcome>>
       ELSE /\ Commit(s, AddedRows(s, e))
            /\ out' = [out EXCEPT ![s] = Append(@, AfterCommit(s))]
            /\ pc' = [pc EXCEPT ![s] = IF req[s].variant = "create" THEN "marker" ELSE "fin"]
            /\ UNCHANGED outcome
    /\ UNCHANGED <<rag, nextChatId, now, embedding_client, maint, link, turns, req, turn, rag_context,
                   emitted, complete_response, stop_reason, llm, pre>>

\* the Persisting step: embeddings (best effort), both rows, commit, yield.
\* In an aborted transaction the INSERTs of the commit raise: the except
\* branch rolls back and re-raises
PersistTurn(s, e) ==
    /\ pc[s] = "persisting"
    /\ IF tx_aborted[s]
       THEN /\ pending' = [pending EXCEPT ![s] = {}]
            /\ tx_aborted' = [tx_aborted EXCEPT ![s] = FALSE]
            /\ outcome' = [outcome EXCEPT ![s] = "raised"]
            /\ pc' = [pc EXCEPT ![s] = "ended"]
            /\ UNCHANGED <<messages, chats, nextMsgId, out>>
       ELSE /\ Commit(s, AddedRows(s, e))
            /\ out' = [out EXCEPT ![s] = Append(@, AfterCommit(s))]
            /\ pc' = [pc EXCEPT ![s] = IF req[s].variant = "create" THEN "marker" ELSE "fin"]
            /\ UNCHANGED outcome
    /\ UNCHANGED <<rag, nextChatId, now, embedding_client, maint, link, turns, req, turn, rag_context,
                   emitted, complete_response, stop_reason, llm, pre>>

\* create_standalone_chat_stream resumed after the marker: yield ("", stop_reason)
YieldFinal(s) ==
    /\ pc[s] = "marker"
    /\ out' = [out EXCEPT ![s] = Append(@, <<<<>>, stop_reason[s]>>)]
    /\ pc' = [pc EXCEPT ![s] = "fin"]
    /\ UNCHANGED <<rag, store, now, embedding_client, maint, link, turns, req, turn, pending, tx_aborted,
                   rag_context, emitted, complete_response, stop_reason, llm,
                   outcome, pre>>

\* resumed after the final pair: the generator returns
Return(s) ==
    /\ pc[s] = "fin"
    /\ outcome' = [outcome EXCEPT ![s] = "done"]
    /\ pc' = [pc EXCEPT ![s] = "ended"]
    /\ UNCHANGED <<rag, store, now, embedding_client, maint, link, turns, req, turn, pending, tx_aborted,
                   rag_context, emitted, complete_response, stop_reason, out,
                   llm, pre>>

\* the caller stops consuming at a yield point: GeneratorExit / CancelledError
\* is thrown into the generator there; `except Exception` does not catch
\* either, so db.rollback() is not called
Cancel(s) ==
    /\ pc[s] \in {"tok", "marker", "fin"}
    /\ outcome' = [outcome EXCEPT ![s] =
                      IF pc[s] = "tok" THEN "cancelled" ELSE "cancelled_late"]
    /\ pc' = [pc EXCEPT ![s] = "ended"]
    /\ UNCHANGED <<rag, store, now, embedding_client, maint, link, turns, req, turn, pending, tx_aborted,
                   rag_context, emitted, complete_response, stop_reason, out,
                   llm, pre>>

\* get_db after its yield: `await session.commit()` when no exception
\* reaches it, else the session is closed with its transaction discarded.
\* The routes' event_stream turns every Exception into an error event, so a
\* raised call reaches the commit; whether a cancellation reaches get_db as
\* an exception is up to the server
get_db(s, commit) ==
    /\ pc[s] = "ended"
    /\ outcome[s] \notin {"cancelled", "cancelled_late"} => commit
    /\ chats' = IF commit THEN chats \cup pending[s] ELSE chats
    /\ pending' = [pending EXCEPT ![s] = {}]
    /\ tx_aborted' = [tx_aborted EXCEPT ![s] = FALSE]
    /\ pc' = [pc EXCEPT ![s] = "idle"]
    /\ req' = [req EXCEPT ![s] = NoReq]
    /\ turn' = [turn EXCEPT ![s] = 0]
    /\ outcome' = [outcome EXCEPT ![s] = "none"]
    /\ rag_context' = [rag_context EXCEPT ![s] = <<>>]
    /\ emitted' = [emitted EXCEPT ![s] = <<>>]
    /\ complete_response' = [complete_response EXCEPT ![s] = <<>>]
    /\ stop_reason' = [stop_reason EXCEPT ![s] = NoReason]
    /\ out' = [out EXCEPT ![s] = <<>>]
    /\ llm' = [llm EXCEPT ![s] = FALSE]
    /\ pre' = [pre EXCEPT ![s] = {}]
    /\ UNCHANGED <<rag, messages, nextMsgId, nextChatId, now, embedding_client, maint, link, turns>>

\* ---------------------------------------------------------------- RagService
\* list(reversed(...))
Reverse(seq) == [i \in 1..Len(seq) |-> seq[Len(seq) + 1 - i]]

\* ORDER BY created_at ASC LIMIT limit; rows of one timestamp come in an
\* order the database picks
Earliest(S) == CHOOSE m \in S : \A x \in S : m.created_at <= x.created_at

\* the oldest rows first, limit of them
RECURSIVE OldestFirst(_, _)
OldestFirst(S, limit) ==
    IF S = {} \/ limit <= 0 THEN <<>>
    ELSE LET m == CHOOSE m \in S : \A x \in S : m.created_at <= x.created_at
         IN  <<m>> \o OldestFirst(S \ {m}, limit - 1)

\* the same query with LIMIT RAG_SURROUNDING_MESSAGES at most
OrderByCreatedAscCapped(S, limit) == OldestFirst(S, Min(limit, RAG_SURROUNDING_MESSAGES))

RECURSIVE OrderByCreatedAsc(_, _)
OrderByCreatedAsc(S, limit) ==
    IF S = {} \/ limit <= 0 THEN <<>>
    ELSE LET m == Earliest(S)
         IN  <<m>> \o OrderByCreatedAsc(S \ {m}, limit - 1)

\* ORDER BY created_at ASC where DESC is meant
Oldest(S) == CHOOSE m \in S : \A x \in S : m.created_at <= x.created_at

\* ORDER BY created_at DESC LIMIT limit
Latest(S) == CHOOSE m \in S : \A x \in S : m.created_at >= x.created_at

RECURSIVE OrderByCreatedDesc(_, _)
OrderByCreatedDesc(S, limit) ==
    IF S = {} \/ limit <= 0 THEN <<>>
    ELSE LET m == Latest(S)
         IN  <<m>> \o OrderByCreatedDesc(S \ {m}, limit - 1)

\* sorted(messages, key=lambda m: m.created_at): a stable sort
RECURSIVE SortedByCreatedAt(_)
SortedByCreatedAt(seq) ==
    IF seq = <<>> THEN <<>>
    ELSE LET i == CHOOSE i \in 1..Len(seq) :
                     /\ \A j \in 1..Len(seq) : seq[i].created_at <= seq[j].created_at
                     /\ \A j \in 1..(i - 1) : seq[j].created_at > seq[i].created_at
         IN  <<seq[i]>> \o SortedByCreatedAt(SubSeq(seq, 1, i - 1)
                                              \o SubSeq(seq, i + 1, Len(seq)))

\* the same query without its owner filter
_get_relevant_messages_unscoped(conversation_type, user_id, query, exclude, limit, ok) ==
    IF ~embedding_client THEN <<>>
    ELSE IF ~ok THEN <<>>
    ELSE LET query_vector == get_embedding(query)
             stmt == {m \in messages :
                        /\ m.kind = conversation_type
                        /\ m.embedding # NoEmbedding
                        /\ (exclude # 0 => m.conv # exclude)}
         IN  OrderByDistance(stmt, query_vector, limit)

\* RagService._get_relevant_messages; model_class and join_model follow
\* from conversation_type, exclude = 0 stands for no exclude_filter
_get_relevant_messages(conversation_type, user_id, query, exclude, limit, ok) ==
    IF ~embedding_client THEN <<>>
    ELSE IF ~ok THEN <<>>
    ELSE LET query_vector == get_embedding(query)
             stmt == {m \in messages :
                        /\ m.kind = conversation_type
                        /\ m.embedding # NoEmbedding
                        /\ IF conversation_type = "standalone"
                           THEN \E c \in chats : c.id = m.conv /\ c.user_id = user_id
                           ELSE m.user_id = user_id
                        /\ (exclude # 0 => m.conv # exclude)}
         IN  OrderByDistance(stmt, query_vector, limit)

\* RagService._group_by_conversation: the keys of the dict, in insertion order
RECURSIVE GroupKeys(_)
GroupKeys(seq) ==
    IF seq = <<>> THEN <<>>
    ELSE LET rest == GroupKeys(SubSeq(seq, 1, Len(seq) - 1))
             c == seq[Len(seq)].conv
         IN  IF \E i \in 1..Len(rest) : rest[i] = c THEN rest ELSE Append(rest, c)

\* no grouping: every hit under every key
_group_by_conversation_all(relevant, conv) == relevant

\* ... and the list stored under one key
_group_by_conversation(relevant, conv) == SelectSeq(relevant, LAMBDA m : m.conv = conv)

\* RagService._get_merged_surrounding_messages
_get_merged_surrounding_messages(rows, conversation_type, matches, conversation_id, before, after) ==
    LET sorted_matches == SortedByCreatedAt(matches)
        earliest_match == sorted_matches[1]
        latest_match == sorted_matches[Len(sorted_matches)]
        conversation == {m \in rows : m.kind = conversation_type /\ m.conv = conversation_id}
        stmt_before == {m \in conversation : m.created_at < earliest_match.created_at}
        stmt_after == {m \in conversation : m.created_at > latest_match.created_at}
        stmt_between == {m \in conversation :
                            /\ m.created_at > earliest_match.created_at
                            /\ m.created_at < latest_match.created_at}
    IN  [before |-> Reverse(OrderByCreatedDesc(stmt_before, before)),
         matched |-> sorted_matches,
         between |-> IF Len(sorted_matches) > 1
                     THEN OrderByCreatedAsc(stmt_between, Cardinality(stmt_between))
                     ELSE <<>>,
         after |-> OrderByCreatedAsc(stmt_after, after)]

\* msg.role.capitalize()
Capitalize(role) == IF role = "user" THEN "User:" ELSE "Assistant:"

\* "\n".join(f"{msg.role.capitalize()}: {msg.content[:200]}" for msg in messages)
RECURSIVE JoinLines(_)
JoinLines(msgs) ==
    IF msgs = <<>> THEN <<>>
    ELSE LET line == <<Capitalize(msgs[1].role)>>
                        \o Prefix(msgs[1].content, SUMMARY_CONTENT_LENGTH)
         IN  IF Len(msgs) = 1 THEN line
             ELSE line \o <<"\n">> \o JoinLines(Tail(msgs))

\* the last RAG_SUMMARY_MAX_MESSAGES rows of the conversation, oldest first,
\* rendered: the text _generate_summary sends to the provider
conversation_text(rows, conversation_type, conversation_id) ==
    JoinLines(Reverse(OrderByCreatedDesc(
        {m \in rows : m.kind = conversation_type /\ m.conv = conversation_id},
        RAG_SUMMARY_MAX_MESSAGES)))

\* ai_client.generate_conversation_summary: some function of the text it is
\* given, or None (ai = "none") when the provider fails or answers nothing;
\* an implementation of AIClient that raises is ai = "raise"
generate_conversation_summary(text, ai) ==
    IF ai = "text" THEN <<"summary:">> \o text ELSE <<>>

\* RagService._generate_summary
_generate_summary(rows, conversation_type, conversation_id, ai) ==
    IF {m \in rows : m.kind = conversation_type /\ m.conv = conversation_id} = {}
    THEN <<"Empty conversation">>
    ELSE LET summary == generate_conversation_summary(
                            conversation_text(rows, conversation_type, conversation_id), ai)
         IN  IF ai = "raise" THEN <<"Previous conversation">>
             ELSE IF summary # <<>> THEN summary
             ELSE <<"Discussion about biblical topics">>

\* RagService._get_or_create_conversation_summary over a message table and
\* a cache: the text returned, whether the cache answered, what was sent to
\* the provider, and the cache row written
_get_or_create_conversation_summary(rows, cache, conversation_type, conversation_id, ai) ==
    LET current_count ==
            Cardinality({m \in rows : m.kind = conversation_type /\ m.conv = conversation_id})
        cached == {e \in cache : /\ e.conversation_type = conversation_type
                                 /\ e.conversation_id = conversation_id}
        hit == \E e \in cached : e.message_count = current_count
        summary == _generate_summary(rows, conversation_type, conversation_id, ai)
    IN  IF hit
        THEN [summary |-> (CHOOSE e \in cached : TRUE).summary_text,
              hit |-> TRUE,
              sent |-> <<>>,
              cache |-> cache]
        ELSE [summary |-> summary,
              hit |-> FALSE,
              sent |-> IF current_count = 0 THEN <<>>
                       ELSE conversation_text(rows, conversation_type, conversation_id),
              cache |-> (cache \ cached) \cup
                        {[conversation_type |-> conversation_type,
                          conversation_id |-> conversation_id,
                          summary_text |-> summary,
                          message_count |-> current_count]}]

\* RagService._get_conversation_date
_get_conversation_date(rows, conversation_type, conversation_id) ==
    LET conversation == {m \in rows : m.kind = conversation_type /\ m.conv = conversation_id}
    IN  IF conversation = {} THEN now ELSE Earliest(conversation).created_at

\* one MergedRagContext of get_enhanced_rag_context
MergedRagContext(conversation_type, conversation_id, relevant, ai) ==
    LET merged_surrounding ==
            _get_merged_surrounding_messages(messages, conversation_type,
                _group_by_conversation(relevant, conversation_id), conversation_id,
                RAG_SURROUNDING_MESSAGES, RAG_SURROUNDING_MESSAGES)
    IN  [conversation_id |-> conversation_id,
         conversation_type |-> conversation_type,
         summary |-> _get_or_create_conversation_summary(messages, summaries,
                         conversation_type, conversation_id, ai).summary,
         matched_messages |-> merged_surrounding.matched,
         messages_before |-> merged_surrounding.before,
         messages_between |-> merged_surrounding.between,
         messages_after |-> merged_surrounding.after,
         conversation_date |-> _get_conversation_date(messages, conversation_type,
                                                      conversation_id)]

\* the conversation_summaries rows after the summaries of all groups
RECURSIVE SummariesAfter(_, _, _, _)
SummariesAfter(cache, conversation_type, keys, ai) ==
    IF keys = <<>> THEN cache
    ELSE SummariesAfter(
            _get_or_create_conversation_summary(messages, cache, conversation_type,
                                                keys[1], ai).cache,
            conversation_type, Tail(keys), ai)

\* RagService.get_enhanced_rag_context, the whole call
get_enhanced_rag_context(user_id, query, conversation_type, current_conversation_id, limit, ok, ai) ==
    LET relevant == _get_relevant_messages(conversation_type, user_id, query,
                                           current_conversation_id, limit, ok)
        keys == GroupKeys(relevant)
    IN  /\ rag_call' = [user_id |-> user_id, query |-> query,
                        conversation_type |-> conversation_type,
                        current_conversation_id |-> current_conversation_id,
                        limit |-> limit, ok |-> ok]
        /\ relevant_messages' = relevant
        /\ merged_contexts' = [i \in 1..Len(keys) |->
                                 MergedRagContext(conversation_type, keys[i], relevant, ai)]
        /\ summaries' = SummariesAfter(summaries, conversation_type, keys, ai)
        /\ UNCHANGED <<store, now, embedding_client, maint, link, turns, calls,
                       summary_call, returned>>

\* ------------------------------------- the summary cache, query by query
\* database sessions that call _get_or_create_conversation_summary
Callers == {1, 2}

NoSummaryCall ==
    [pc |-> "idle", conversation_type |-> "none", conversation_id |-> 0,
     current_count |-> 0, cached |-> FALSE, rows |-> {}, overlapped |-> FALSE]

NoReturn ==
    [conversation_type |-> "none", conversation_id |-> 0, rows |-> {},
     text |-> <<>>, llm |-> 0, cached |-> FALSE, hit |-> FALSE, stored |-> FALSE,
     conflict |-> FALSE, raised |-> FALSE, overlapped |-> FALSE,
     step |-> "none", ai |-> "unused", db |-> "ok"]

\* the rows of one conversation in a message table
ConversationRows(rows, conversation_type, conversation_id) ==
    {m \in rows : m.kind = conversation_type /\ m.conv = conversation_id}

\* a lookup that never finds the row
CacheRowsNone(cache, conversation_type, conversation_id) == {}

\* the conversation_summaries rows of one key
CacheRows(cache, conversation_type, conversation_id) ==
    {e \in cache : /\ e.conversation_type = conversation_type
                   /\ e.conversation_id = conversation_id}

\* another caller is inside _get_or_create_conversation_summary
Overlaps(c) == \E o \in Callers \ {c} : summary_call[o].pc # "idle"

\* the statement of the caller returns: it becomes the last returned call
SummaryReturns(c, result) ==
    /\ returned' = result
    /\ summary_call' = [summary_call EXCEPT ![c] = NoSummaryCall]

\* a table without the unique index: the INSERT always succeeds
upsert_no_unique_index(cache, cached, row, db) ==
    IF db = "raise" THEN [cache |-> cache, ok |-> FALSE, conflict |-> FALSE]
    ELSE IF cached
    THEN [cache |-> (cache \ CacheRows(cache, row.conversation_type, row.conversation_id))
                        \cup {row},
          ok |-> TRUE, conflict |-> FALSE]
    ELSE [cache |-> cache \cup {row}, ok |-> TRUE, conflict |-> FALSE]

\* a store step that keeps the fixed fallback texts out of the cache
upsert_unless_fallback(cache, cached, row, db) ==
    IF db = "raise" THEN [cache |-> cache, ok |-> FALSE, conflict |-> FALSE]
    ELSE IF row.summary_text \in {<<"Previous conversation">>,
                                  <<"Discussion about biblical topics">>}
    THEN [cache |-> cache, ok |-> TRUE, conflict |-> FALSE]
    ELSE IF cached
    THEN [cache |-> (cache \ CacheRows(cache, row.conversation_type, row.conversation_id))
                        \cup {row},
          ok |-> TRUE, conflict |-> FALSE]
    ELSE IF CacheRows(cache, row.conversation_type, row.conversation_id) # {}
    THEN [cache |-> cache, ok |-> FALSE, conflict |-> TRUE]
    ELSE [cache |-> cache \cup {row}, ok |-> TRUE, conflict |-> FALSE]

\* "Update or create cache entry" and db.commit(): the UPDATE of the row
\* read before, or the INSERT of a new one, which idx_conversation_lookup
\* (unique) refuses when the key has a row by now; db = "raise" is any
\* other failure of the statement or of the commit
upsert(cache, cached, row, db) ==
    IF db = "raise" THEN [cache |-> cache, ok |-> FALSE, conflict |-> FALSE]
    ELSE IF cached
    THEN [cache |-> (cache \ CacheRows(cache, row.conversation_type, row.conversation_id))
                        \cup {row},
          ok |-> TRUE, conflict |-> FALSE]
    ELSE IF CacheRows(cache, row.conversation_type, row.conversation_id) # {}
    THEN [cache |-> cache, ok |-> FALSE, conflict |-> TRUE]
    ELSE [cache |-> cache \cup {row}, ok |-> TRUE, conflict |-> FALSE]

\* the except branch re-raises instead of returning the fallback
failed_store_raises(ok, summary) ==
    [text |-> <<>>, raised |-> ~ok]

\* what the call hands back after the store step: the summary, or the
\* fallback of the except branch
after_store(ok, summary) ==
    [text |-> IF ok THEN summary ELSE <<"Previous conversation">>, raised |-> FALSE]

\* _get_or_create_conversation_summary up to the await of _generate_summary:
\* count, cache lookup, and the rows _generate_summary fetches; a cache hit
\* returns here, and so does a failed query (db = "raise")
SummaryRead(c, conversation_type, conversation_id, db) ==
    LET rows == ConversationRows(messages, conversation_type, conversation_id)
        current_count == Cardinality(rows)
        cached == CacheRows(summaries, conversation_type, conversation_id)
        hit == \E e \in cached : e.message_count = current_count
        result == [NoReturn EXCEPT !.conversation_type = conversation_type,
                                   !.conversation_id = conversation_id,
                                   !.rows = rows, !.step = "read", !.db = db,
                                   !.overlapped = Overlaps(c)]
    IN  /\ summary_call[c].pc = "idle"
        /\ IF db = "raise"
           THEN SummaryReturns(c, [result EXCEPT !.text = after_store(FALSE, <<>>).text,
                                                 !.raised = after_store(FALSE, <<>>).raised])
           ELSE IF hit
           THEN SummaryReturns(c, [result EXCEPT
                    !.text = (CHOOSE e \in cached : TRUE).summary_text,
                    !.cached = TRUE, !.hit = TRUE, !.stored = TRUE])
           ELSE /\ summary_call' =
                      [o \in Callers |->
                          IF o = c
                          THEN [pc |-> "generating",
                                conversation_type |-> conversation_type,
                                conversation_id |-> conversation_id,
                                current_count |-> current_count,
                                cached |-> cached # {},
                                rows |-> rows,
                                overlapped |-> Overlaps(c)]
                          ELSE IF summary_call[o].pc = "idle" THEN summary_call[o]
                          ELSE [summary_call[o] EXCEPT !.overlapped = TRUE]]
                /\ UNCHANGED returned
        /\ UNCHANGED <<store, now, embedding_client, maint, link, turns, calls, summaries,
                       rag_call, relevant_messages, merged_contexts>>

\* ... and from the answer of _generate_summary to the return
SummaryStore(c, ai, db) ==
    LET call == summary_call[c]
        summary == _generate_summary(call.rows, call.conversation_type,
                                     call.conversation_id, ai)
        row == [conversation_type |-> call.conversation_type,
                conversation_id |-> call.conversation_id,
                summary_text |-> summary,
                message_count |-> call.current_count]
        done == upsert(summaries, call.cached, row, db)
        back == after_store(done.ok, summary)
    IN  /\ call.pc = "generating"
        /\ summaries' = done.cache
        /\ SummaryReturns(c, [NoReturn EXCEPT
                                 !.conversation_type = call.conversation_type,
                                 !.conversation_id = call.conversation_id,
                                 !.rows = call.rows,
                                 !.text = back.text,
                                 !.raised = back.raised,
                                 !.llm = IF call.rows = {} THEN 0 ELSE 1,
                                 !.cached = call.cached,
                                 !.step = "store",
                                 !.ai = IF call.rows = {} THEN "unused" ELSE ai,
                                 !.db = db,
                                 !.stored = done.ok,
                                 !.conflict = done.conflict,
                                 !.overlapped = call.overlapped])
        /\ UNCHANGED <<store, now, embedding_client, maint, link, turns, calls,
                       rag_call, relevant_messages, merged_contexts>>

\* no delete_standalone_chat call was made yet
NoDelete == [called |-> FALSE, chat_id |-> 0, user_id |-> 0, result |-> FALSE, changed |-> FALSE]

\* ChatService.clear_chat_messages
clear_chat_messages(insight_id, user_id) ==
    /\ messages' = messages \ {m \in messages : /\ m.kind = "insight"
                                                 /\ m.conv = insight_id
                                                 /\ m.user_id = user_id}
    /\ UNCHANGED <<chats, nextMsgId, nextChatId, now, embedding_client, maint, link, turns, calls, rag>>

\* ChatService.delete_standalone_chat: the chat and, by the cascade of
\* StandaloneChat.messages, its messages
delete_standalone_chat(chat_id, user_id) ==
    /\ IF OwnedChat(chat_id, user_id) # {}
       THEN /\ chats' = chats \ OwnedChat(chat_id, user_id)
            /\ messages' = messages \ {m \in messages : /\ m.kind = "standalone"
                                                         /\ m.conv = chat_id}
       ELSE UNCHANGED <<chats, messages>>
    /\ deleted' = [called |-> TRUE, chat_id |-> chat_id, user_id |-> user_id,
                   result |-> (OwnedChat(chat_id, user_id) # {}),
                   changed |-> (<<chats', messages'>> # <<chats, messages>>)]
    /\ UNCHANGED <<nextMsgId, nextChatId, now, embedding_client, backfill, quota, link, turns,
                   calls, rag>>

\* --------------------------------------------------------- embedding backfill
\* migrations/backfill_embeddings.py: pc is where the script is, batch the
\* rows its select returned, written the ids its last commit updated
NoBackfill == [pc |-> "idle", batch |-> {}, written |-> {}]

\* the users and days usage is counted for; the clock of these behaviours
\* counts days, so that today, the start of the current UTC day, is now
UsageUsers == {1, 2}
Days == {0, 1}

NoUsage == usage_tracking = {} /\ tracked = [u \in UsageUsers |-> [d \in Days |-> 0]]

NoMaintenance == deleted = NoDelete /\ backfill = NoBackfill /\ NoUsage

\* the table a backfill function reads
TableRows(kind) == {m \in messages : m.kind = kind}

\* a select without the filter on the embedding
AnyEmbedding(rows) == rows

\* .filter(ChatMessage.embedding.is_(None))
EmbeddingIsNone(rows) == {m \in rows : m.embedding = NoEmbedding}

\* backfill_chat_messages / backfill_standalone_messages up to the await of
\* get_embeddings_batch: the rows without embedding are read; with none the
\* function returns
BackfillRead(kind) ==
    /\ backfill.pc = "idle"
    /\ backfill' = [pc |-> IF EmbeddingIsNone(TableRows(kind)) = {} THEN "idle" ELSE "embedding",
                    batch |-> EmbeddingIsNone(TableRows(kind)),
                    written |-> {}]
    /\ UNCHANGED <<store, now, embedding_client, deleted, quota, link, turns, calls, rag>>

\* msg.embedding = embedding for the batch, then db.commit(): the UPDATE
\* of a row deleted since the select raises and the batch is rolled back,
\* as it is when get_embeddings_batch raised
BackfillWrite(ok) ==
    /\ backfill.pc = "embedding"
    /\ LET ids == {m.id : m \in backfill.batch}
           done == ok /\ backfill.batch \subseteq messages
       IN  /\ messages' = IF done
                          THEN {IF m.id \in ids
                                THEN [m EXCEPT !.embedding = get_embedding(m.content)]
                                ELSE m : m \in messages}
                          ELSE messages
           /\ backfill' = [pc |-> "idle", batch |-> {},
                           written |-> IF done THEN ids ELSE {}]
    /\ UNCHANGED <<chats, nextMsgId, nextChatId, now, embedding_client, deleted, quota, link,
                   turns, calls, rag>>

\* ---------------------------------------------------------------- usage limits
\* UsageService. A call and the commit of its request are one step.
\* select(User).where(User.id == user_id)
UserRow(id) == {u \in users : u.id = id}

\* select(UsageTracking).where(user_id == user_id, date == today)
UsageToday(user_id) ==
    {r \in usage_tracking : r.user_id = user_id /\ r.date = now}

\* a limit that lets one more call through
UpToLimit(llm_calls) == llm_calls <= FREE_USER_DAILY_LIMIT

\* can_call = usage.llm_calls < FREE_USER_DAILY_LIMIT
UnderLimit(llm_calls) == llm_calls < FREE_USER_DAILY_LIMIT

\* UsageService.can_make_llm_call: <<can_call, current_usage, limit>>
can_make_llm_call(user_id) ==
    IF UserRow(user_id) = {} THEN <<FALSE, 0, FREE_USER_DAILY_LIMIT>>
    ELSE IF (CHOOSE u \in UserRow(user_id) : TRUE).pro_subscription THEN <<TRUE, 0, 0>>
    ELSE IF UsageToday(user_id) = {} THEN <<TRUE, 0, FREE_USER_DAILY_LIMIT>>
    ELSE LET usage == CHOOSE r \in UsageToday(user_id) : TRUE
         IN  <<UnderLimit(usage.llm_calls), usage.llm_calls, FREE_USER_DAILY_LIMIT>>

\* usage.llm_calls += 1
Incremented(user_id) ==
    LET usage == CHOOSE r \in UsageToday(user_id) : TRUE
    IN  (usage_tracking \ {usage}) \cup {[usage EXCEPT !.llm_calls = @ + 1]}

\* UsageService.track_llm_call
track_llm_call(user_id) ==
    /\ usage_tracking' =
           IF UsageToday(user_id) = {}
           THEN usage_tracking \cup {[user_id |-> user_id, date |-> now, llm_calls |-> 1]}
           ELSE Incremented(user_id)
    /\ tracked' = [tracked EXCEPT ![user_id][now] = @ + 1]
    /\ UNCHANGED <<store, now, embedding_client, deleted, backfill, link, turns, calls, rag>>

\* UsageService.set_pro_subscription
set_pro_subscription(user_id, is_pro) ==
    /\ users' = {IF u.id = user_id THEN [u EXCEPT !.pro_subscription = is_pro] ELSE u :
                    u \in users}
    /\ UNCHANGED <<store, now, embedding_client, maint, link_codes, nextLinkId, link_call,
                   accepted, turns, calls, rag>>

\* midnight UTC passes
NextDay ==
    /\ now + 1 \in Days
    /\ now' = now + 1
    /\ UNCHANGED <<store, embedding_client, maint, link, turns, calls, rag>>

\* ------------------------------------------------------------- device linking
\* DeviceLinkService. A call and the commit of its request are one step. A
\* display code is twelve random characters checked against the table; the
\* model numbers the codes as they are generated
LinkUsers == {1, 2, 3}
DisplayCodes == 1..MaxCodes
NoTarget == 0                                \* target_user_id IS NULL

\* the last call. op: the method called; raised: it raised ValueError; error: the message;
\* reused: the code had been accepted before the call; changed: the call
\* changed users, conversations or messages; active: the count of active
\* codes generate_link_code read; created: it added a code
NoLinkCall ==
    [op |-> "none", display_code |-> 0, raised |-> FALSE, error |-> "",
     reused |-> FALSE, changed |-> FALSE, active |-> 0, created |-> FALSE]

NoLinking ==
    /\ users = {}
    /\ link_codes = {}
    /\ nextLinkId = 1
    /\ link_call = NoLinkCall
    /\ accepted = [c \in DisplayCodes |-> 0]

\* status == "pending", expires_at > datetime.now(UTC)
ActiveCodes(user_id) ==
    {c \in link_codes : /\ c.source_user_id = user_id
                        /\ c.status = "pending"
                        /\ c.expires_at > now}

\* a limit that lets one more code through
OverLimit(active_codes) == active_codes > MAX_ACTIVE_CODES_PER_USER

\* if active_codes >= self.MAX_ACTIVE_CODES_PER_USER: raise ValueError
AtLimit(active_codes) == active_codes >= MAX_ACTIVE_CODES_PER_USER

\* DeviceLinkService.generate_link_code
generate_link_code(user_id) ==
    /\ UserRow(user_id) # {}
    /\ AtLimit(Cardinality(ActiveCodes(user_id))) \/ nextLinkId <= MaxCodes
    /\ LET active_codes == Cardinality(ActiveCodes(user_id))
           call == [NoLinkCall EXCEPT !.op = "generate", !.active = active_codes]
       IN  IF AtLimit(active_codes)
           THEN /\ link_call' = [call EXCEPT !.raised = TRUE,
                                             !.error = "Too many active link codes"]
                /\ UNCHANGED <<link_codes, nextLinkId>>
           ELSE /\ link_codes' = link_codes \cup
                       {[display_code |-> nextLinkId,
                         source_user_id |-> user_id,
                         target_user_id |-> NoTarget,
                         expires_at |-> now + LINK_CODE_EXPIRY_MINUTES,
                         status |-> "pending"]}
                /\ nextLinkId' = nextLinkId + 1
                /\ link_call' = [call EXCEPT !.display_code = nextLinkId, !.created = TRUE]
    /\ UNCHANGED <<store, now, embedding_client, maint, users, accepted, turns, calls, rag>>

\* merge_users: the user with more devices is kept, with equal counts the
\* one created later, with equal times the target
KeptUser(source_user, target_user) ==
    IF source_user.device_count > target_user.device_count THEN source_user
    ELSE IF target_user.device_count > source_user.device_count THEN target_user
    ELSE IF source_user.created_at > target_user.created_at THEN source_user
    ELSE target_user

\* the users table after merge_users: the deleted user's row is gone, the
\* kept one counts the devices of both
MergedUsers(kept, gone) ==
    (users \ {kept, gone})
        \cup {[kept EXCEPT !.device_count = kept.device_count + gone.device_count]}

\* update(StandaloneChat).where(user_id == deleted_user_id).values(user_id=kept_user_id)
MergedChats(kept_user_id, deleted_user_id) ==
    {IF c.user_id = deleted_user_id THEN [c EXCEPT !.user_id = kept_user_id] ELSE c :
        c \in chats}

\* update(ChatMessage).where(user_id == deleted_user_id).values(user_id=kept_user_id)
MergedMessages(kept_user_id, deleted_user_id) ==
    {IF m.kind = "insight" /\ m.user_id = deleted_user_id
     THEN [m EXCEPT !.user_id = kept_user_id] ELSE m : m \in messages}

\* device_link_codes after the deleted user's row is gone: ondelete CASCADE
\* on source_user_id, ondelete SET NULL on target_user_id
AfterUserDelete(codes, deleted_user_id) ==
    {IF c.target_user_id = deleted_user_id THEN [c EXCEPT !.target_user_id = NoTarget] ELSE c :
        c \in {d \in codes : d.source_user_id # deleted_user_id}}

\* a check that lets every code through that was not revoked
NotRevoked(status) == status # "revoked"

\* if link_code.status != "pending": raise ValueError
IsPending(status) == status = "pending"

StatusError(status) ==
    IF status = "used" THEN "This code has already been used"
    ELSE IF status = "expired" THEN "This code has expired"
    ELSE IF status = "revoked" THEN "This code has been revoked"
    ELSE "Invalid code status"

\* DeviceLinkService.validate_and_use_code. rollback: the caller rolls the
\* session back when the call raises (the request handler does, a caller
\* that goes on with the session does not)
validate_and_use_code(display_code, target_user_id, rollback) ==
    /\ UserRow(target_user_id) # {}
    /\ LET found == {c \in link_codes : c.display_code = display_code}
           call == [NoLinkCall EXCEPT !.op = "validate", !.display_code = display_code,
                                      !.reused = (accepted[display_code] > 0)]
           raise(error) == link_call' = [call EXCEPT !.raised = TRUE, !.error = error]
       IN  IF found = {}
           THEN /\ raise("Invalid link code")
                /\ UNCHANGED <<messages, chats, users, link_codes, accepted>>
           ELSE LET link_code == CHOOSE c \in found : TRUE
                IN  IF link_code.source_user_id = target_user_id
                    THEN /\ raise("Cannot link device to itself")
                         /\ UNCHANGED <<messages, chats, users, link_codes, accepted>>
                    ELSE IF link_code.expires_at <= now
                    THEN /\ raise("This code has expired. Please generate a new one.")
                         /\ link_codes' =
                                IF rollback THEN link_codes
                                ELSE (link_codes \ {link_code})
                                         \cup {[link_code EXCEPT !.status = "expired"]}
                         /\ UNCHANGED <<messages, chats, users, accepted>>
                    ELSE IF ~IsPending(link_code.status)
                    THEN /\ raise(StatusError(link_code.status))
                         /\ UNCHANGED <<messages, chats, users, link_codes, accepted>>
                    ELSE LET source_user == CHOOSE u \in UserRow(link_code.source_user_id) : TRUE
                             target_user == CHOOSE u \in UserRow(target_user_id) : TRUE
                             kept == KeptUser(source_user, target_user)
                             gone == IF kept = source_user THEN target_user ELSE source_user
                             used == [link_code EXCEPT !.status = "used",
                                                       !.target_user_id = target_user_id]
                         IN  /\ users' = MergedUsers(kept, gone)
                             /\ chats' = MergedChats(kept.id, gone.id)
                             /\ messages' = MergedMessages(kept.id, gone.id)
                             /\ link_codes' =
                                    AfterUserDelete((link_codes \ {link_code}) \cup {used},
                                                    gone.id)
                             /\ accepted' = [accepted EXCEPT ![display_code] = @ + 1]
                             /\ link_call' = [call EXCEPT !.changed = TRUE]
    /\ UNCHANGED <<nextMsgId, nextChatId, now, embedding_client, maint, nextLinkId, turns,
                   calls, rag>>

\* DeviceLinkService.revoke_user_codes
revoke_user_codes(user_id) ==
    /\ UserRow(user_id) # {}
    /\ link_codes' = {IF c.source_user_id = user_id /\ c.status = "pending"
                      THEN [c EXCEPT !.status = "revoked"] ELSE c : c \in link_codes}
    /\ link_call' = [NoLinkCall EXCEPT !.op = "revoke"]
    /\ UNCHANGED <<store, now, embedding_client, maint, users, nextLinkId, accepted, turns,
                   calls, rag>>

\* DeviceLinkService.cleanup_expired_codes
cleanup_expired_codes ==
    /\ link_codes' = {IF c.status = "pending" /\ c.expires_at <= now
                      THEN [c EXCEPT !.status = "expired"] ELSE c : c \in link_codes}
    /\ link_call' = [NoLinkCall EXCEPT !.op = "cleanup"]
    /\ UNCHANGED <<store, now, embedding_client, maint, users, nextLinkId, accepted, turns,
                   calls, rag>>

\* the lifetime of a code passes
LinkTick ==
    /\ now + LINK_CODE_EXPIRY_MINUTES <= MaxLinkTime
    /\ now' = now + LINK_CODE_EXPIRY_MINUTES
    /\ UNCHANGED <<store, embedding_client, maint, link, turns, calls, rag>>

\* one output line per message: f"{role_label} ({timestamp}): {content}",
\* with the marker on matched messages
Lines(msgs, marker) ==
    [i \in 1..Len(msgs) |-> [kind |-> "message", msg |-> msgs[i], marker |-> marker]]

\* the loop over ctx.matched_messages: each match, then the rows of
\* messages_between that fall in the gap to the next match
RECURSIVE MatchedAndGaps(_, _)
MatchedAndGaps(matched, between) ==
    IF matched = <<>> THEN <<>>
    ELSE Lines(<<matched[1]>>, TRUE)
         \o (IF Len(matched) > 1
             THEN Lines(SelectSeq(between,
                            LAMBDA m : /\ matched[1].created_at < m.created_at
                                       /\ m.created_at < matched[2].created_at), FALSE)
             ELSE <<>>)
         \o MatchedAndGaps(Tail(matched), between)

\* the part of format_enhanced_rag_context for one MergedRagContext, without
\* the "---excerpt---" delimiters
ExcerptLines(ctx) ==
    <<[kind |-> "summary", date |-> ctx.conversation_date, summary |-> ctx.summary]>>
    \o Lines(ctx.messages_before, FALSE)
    \o MatchedAndGaps(ctx.matched_messages, ctx.messages_between)
    \o Lines(ctx.messages_after, FALSE)

\* RagService.format_enhanced_rag_context, line by line
RECURSIVE format_enhanced_rag_context(_)
format_enhanced_rag_context(enhanced_contexts) ==
    IF enhanced_contexts = <<>> THEN <<>>
    ELSE ExcerptLines(enhanced_contexts[1])
         \o format_enhanced_rag_context(Tail(enhanced_contexts))

\* ----------------------------------------------------------- specification
NoCall == [user_id |-> 0, query |-> <<>>, conversation_type |-> "none",
           current_conversation_id |-> 0, limit |-> 0, ok |-> FALSE]

Init ==
    /\ messages = {}
    /\ chats = {}
    /\ nextMsgId = 1
    /\ nextChatId = 1
    /\ now = 0
    /\ embedding_client \in BOOLEAN
    /\ NoMaintenance
    /\ NoLinking
    /\ turns = 0
    /\ pc = [s \in Sessions |-> "idle"]
    /\ req = [s \in Sessions |-> NoReq]
    /\ turn = [s \in Sessions |-> 0]
    /\ pending = [s \in Sessions |-> {}]
    /\ tx_aborted = [s \in Sessions |-> FALSE]
    /\ summary_call = [c \in Callers |-> NoSummaryCall]
    /\ returned = NoReturn
    /\ rag_context = [s \in Sessions |-> <<>>]
    /\ emitted = [s \in Sessions |-> <<>>]
    /\ complete_response = [s \in Sessions |-> <<>>]
    /\ stop_reason = [s \in Sessions |-> NoReason]
    /\ out = [s \in Sessions |-> <<>>]
    /\ llm = [s \in Sessions |-> FALSE]
    /\ outcome = [s \in Sessions |-> "none"]
    /\ pre = [s \in Sessions |-> {}]
    /\ summaries = {}
    /\ rag_call = NoCall
    /\ relevant_messages = <<>>
    /\ merged_contexts = <<>>

ChatIds == Turns

\* no other request is in flight
Alone(s) == \A t \in Sessions \ {s} : Idle(t)

\* one request at a time
Next ==
    \/ \E s \in Sessions, t \in Clock, i \in Insights, m \in UserMessages,
          r \in RetrievalOutcomes :
          Alone(s) /\ send_message_stream(s, t, s, i, m, r)
    \/ \E s \in Sessions, t \in Clock, c \in ChatIds, m \in UserMessages,
          r \in RetrievalOutcomes :
          Alone(s) /\ send_standalone_message_stream(s, t, s, c, m, r)
    \/ \E s \in Sessions, t \in Clock, m \in UserMessages :
          Alone(s) /\ create_standalone_chat_stream(s, t, s, m)
    \/ \E s \in Sessions, d \in Deltas : DeltaCount(s) < MaxDeltas /\ StreamChunk(s, d)
    \/ \E s \in Sessions : Resume(s)
    \/ \E s \in Sessions : StreamRaise(s)
    \/ \E s \in Sessions, r \in StopReasons : StreamEnd(s, r)
    \/ \E s \in Sessions, e \in EmbeddingOutcomes : PersistTurn(s, e)
    \/ \E s \in Sessions : YieldFinal(s)
    \/ \E s \in Sessions : Return(s)
    \/ \E s \in Sessions : Cancel(s)
    \/ \E s \in Sessions, commit \in BOOLEAN : get_db(s, commit)

Spec == Init /\ [][Next]_vars

\* one user, longer provider streams of different texts
StreamUsers == {1}

NextStream ==
    \/ \E s \in StreamUsers, t \in Clock, m \in UserMessages :
          send_message_stream(s, t, s, 1, m, "ok")
    \/ \E s \in StreamUsers, t \in Clock, c \in ChatIds, m \in UserMessages :
          send_standalone_message_stream(s, t, s, c, m, "ok")
    \/ \E s \in StreamUsers, t \in Clock, m \in UserMessages :
          create_standalone_chat_stream(s, t, s, m)
    \/ \E s \in StreamUsers, d \in Chunks : DeltaCount(s) < MaxChunks /\ StreamChunk(s, d)
    \/ \E s \in StreamUsers : Resume(s)
    \/ \E s \in StreamUsers : StreamRaise(s)
    \/ \E s \in StreamUsers, r \in AllStopReasons : StreamEnd(s, r)
    \/ \E s \in StreamUsers : PersistTurn(s, "both")
    \/ \E s \in StreamUsers : YieldFinal(s)
    \/ \E s \in StreamUsers : Return(s)
    \/ \E s \in StreamUsers : Cancel(s)
    \/ \E s \in StreamUsers, commit \in BOOLEAN : get_db(s, commit)

SpecStream == Init /\ [][NextStream]_vars

\* one call to RagService on a store the streaming calls have left, after
\* which the behaviour ends
Queries == {<<"q">>}
ConversationTypes == {"insight", "standalone"}
Limits == {1, RAG_CONTEXT_LIMIT}

Quiescent == \A s \in Sessions : Idle(s)

\* current_conversation_id: None (0) or a conversation to leave out
Exclusions == {0, 1}

\* the streaming calls before it end on the provider's own stop, so that no
\* stored reply is flagged truncated
NextRag ==
    \/ \E s \in Sessions, t \in Clock, i \in Insights, m \in UserMessages,
          r \in RetrievalOutcomes :
          rag_call = NoCall /\ Alone(s) /\ send_message_stream(s, t, s, i, m, r)
    \/ \E s \in Sessions, t \in Clock, c \in ChatIds, m \in UserMessages,
          r \in RetrievalOutcomes :
          rag_call = NoCall /\ Alone(s) /\ send_standalone_message_stream(s, t, s, c, m, r)
    \/ \E s \in Sessions, t \in Clock, m \in UserMessages :
          rag_call = NoCall /\ Alone(s) /\ create_standalone_chat_stream(s, t, s, m)
    \/ \E s \in Sessions, d \in Deltas :
          rag_call = NoCall /\ DeltaCount(s) < MaxDeltas /\ StreamChunk(s, d)
    \/ \E s \in Sessions : rag_call = NoCall /\ Resume(s)
    \/ \E s \in Sessions : rag_call = NoCall /\ StreamRaise(s)
    \/ \E s \in Sessions : rag_call = NoCall /\ StreamEnd(s, "end_turn")
    \/ \E s \in Sessions, e \in EmbeddingOutcomes : rag_call = NoCall /\ PersistTurn(s, e)
    \/ \E s \in Sessions : rag_call = NoCall /\ YieldFinal(s)
    \/ \E s \in Sessions : rag_call = NoCall /\ Return(s)
    \/ \E s \in Sessions : rag_call = NoCall /\ Cancel(s)
    \/ \E s \in Sessions, commit \in BOOLEAN : rag_call = NoCall /\ get_db(s, commit)
    \/ \E u \in Users, q \in Queries, ty \in ConversationTypes,
          cur \in Exclusions, limit \in Limits, ok \in BOOLEAN,
          ai \in {"text", "none"} :
          /\ rag_call = NoCall
          /\ Quiescent
          /\ \/ ok /\ ai = "text"
             \/ cur = 0 /\ limit = RAG_CONTEXT_LIMIT /\ (ok \/ ai = "text")
          /\ get_enhanced_rag_context(u, q, ty, cur, limit, ok, ai)

SpecRag == Init /\ [][NextRag]_vars

\* the conversations whose summary is asked for
SummaryKeys == {<<"insight", 1>>}

SummaryOutcomes == {"text", "none", "raise"}

DbOutcomes == {"ok", "raise"}

NoSummaryRunning == \A c \in Callers : summary_call[c].pc = "idle"

\* one user's chat turns, clears and deletions between summary calls, all
\* within one tick of the database clock; two summary calls may interleave
NextSummary ==
    \/ \E s \in StreamUsers, t \in {now}, m \in UserMessages :
          NoSummaryRunning /\ send_message_stream(s, t, s, 1, m, "ok")
    \/ \E s \in StreamUsers, t \in {now}, c \in ChatIds, m \in UserMessages :
          NoSummaryRunning /\ send_standalone_message_stream(s, t, s, c, m, "ok")
    \/ \E s \in StreamUsers, t \in {now}, m \in UserMessages :
          NoSummaryRunning /\ create_standalone_chat_stream(s, t, s, m)
    \/ \E s \in StreamUsers, d \in Deltas : DeltaCount(s) < MaxDeltas /\ StreamChunk(s, d)
    \/ \E s \in StreamUsers : Resume(s)
    \/ \E s \in StreamUsers : StreamRaise(s)
    \/ \E s \in StreamUsers : StreamEnd(s, "end_turn")
    \/ \E s \in StreamUsers : PersistTurn(s, "both")
    \/ \E s \in StreamUsers : YieldFinal(s)
    \/ \E s \in StreamUsers : Return(s)
    \/ \E s \in StreamUsers : Cancel(s)
    \/ \E s \in StreamUsers, commit \in BOOLEAN : get_db(s, commit)
    \/ \E u \in StreamUsers : Quiescent /\ clear_chat_messages(1, u)
    \/ \E u \in StreamUsers : Quiescent /\ delete_standalone_chat(1, u)
    \/ \E c \in Callers, k \in SummaryKeys, db \in DbOutcomes :
          Quiescent /\ SummaryRead(c, k[1], k[2], db)
    \/ \E c \in Callers, ai \in SummaryOutcomes, db \in DbOutcomes :
          /\ summary_call[c].rows = {} => ai = "text"
          /\ SummaryStore(c, ai, db)

SpecSummary == Init /\ [][NextSummary]_vars

\* both users create freeform conversations, talk in them and delete them,
\* their own or the other user's, one request at a time
NextOwner ==
    \/ \E s \in Sessions, t \in Clock, m \in UserMessages :
          Alone(s) /\ create_standalone_chat_stream(s, t, s, m)
    \/ \E s \in Sessions, t \in Clock, c \in ChatIds, m \in UserMessages :
          Alone(s) /\ send_standalone_message_stream(s, t, s, c, m, "ok")
    \/ \E s \in Sessions : StreamEnd(s, "end_turn")
    \/ \E s \in Sessions, e \in EmbeddingOutcomes : PersistTurn(s, e)
    \/ \E s \in Sessions : YieldFinal(s)
    \/ \E s \in Sessions : Return(s)
    \/ \E s \in Sessions, commit \in BOOLEAN : get_db(s, commit)
    \/ \E c \in ChatIds, u \in Users : Quiescent /\ delete_standalone_chat(c, u)

SpecOwner == Init /\ [][NextOwner]_vars

\* the owner of a conversation, user 1 for an id not in use
OwnerOfChat(c) ==
    IF \E r \in chats : r.id = c THEN (CHOOSE r \in chats : r.id = c).user_id ELSE 1

\* turns, deletions and one context retrieval, one request at a time, while
\* the backfill script runs beside them
NextBackfill ==
    \/ \E s \in Sessions, m \in UserMessages :
          Alone(s) /\ send_message_stream(s, now, s, 1, m, "ok")
    \/ \E s \in Sessions, c \in ChatIds, m \in UserMessages :
          Alone(s) /\ send_standalone_message_stream(s, now, s, c, m, "ok")
    \/ \E s \in Sessions, m \in UserMessages :
          Alone(s) /\ create_standalone_chat_stream(s, now, s, m)
    \/ \E s \in Sessions : StreamEnd(s, "end_turn")
    \/ \E s \in Sessions, e \in EmbeddingOutcomes : PersistTurn(s, e)
    \/ \E s \in Sessions : YieldFinal(s)
    \/ \E s \in Sessions : Return(s)
    \/ \E s \in Sessions : get_db(s, TRUE)
    \/ \E u \in Users : Quiescent /\ clear_chat_messages(1, u)
    \/ \E c \in ChatIds : Quiescent /\ delete_standalone_chat(c, OwnerOfChat(c))
    \/ \E u \in Users, ty \in ConversationTypes :
          /\ rag_call = NoCall
          /\ Quiescent
          /\ backfill.pc = "idle"
          /\ get_enhanced_rag_context(u, <<"q">>, ty, 0, RAG_CONTEXT_LIMIT, TRUE, "text")
    \/ \E kind \in {"insight", "standalone"} : BackfillRead(kind)
    \/ \E ok \in BOOLEAN : BackfillWrite(ok)

SpecBackfill == Init /\ [][NextBackfill]_vars

\* three users with one device each, the first older than the other two, a
\* conversation each and a message of user 1 in the history of insight 1
LinkedRows ==
    {[id |-> 1, kind |-> "insight", conv |-> 1, user_id |-> 1, role |-> "user",
      content |-> <<"q">>, was_truncated |-> FALSE, created_at |-> 0,
      embedding |-> NoEmbedding, turn |-> 1]}

InitLink ==
    /\ users = {[id |-> u, device_count |-> 1, created_at |-> IF u = 1 THEN 0 ELSE 1,
                  pro_subscription |-> FALSE] : u \in LinkUsers}
    /\ link_codes = {}
    /\ nextLinkId = 1
    /\ link_call = NoLinkCall
    /\ accepted = [c \in DisplayCodes |-> 0]
    /\ messages = LinkedRows
    /\ chats = {[id |-> u, user_id |-> u, title |-> <<"q">>, updated_at |-> 0] : u \in LinkUsers}
    /\ nextMsgId = 2
    /\ nextChatId = 4
    /\ now = 0
    /\ embedding_client = TRUE
    /\ NoMaintenance
    /\ turns = 1
    /\ pc = [s \in Sessions |-> "idle"]
    /\ req = [s \in Sessions |-> NoReq]
    /\ turn = [s \in Sessions |-> 0]
    /\ pending = [s \in Sessions |-> {}]
    /\ tx_aborted = [s \in Sessions |-> FALSE]
    /\ summary_call = [c \in Callers |-> NoSummaryCall]
    /\ returned = NoReturn
    /\ rag_context = [s \in Sessions |-> <<>>]
    /\ emitted = [s \in Sessions |-> <<>>]
    /\ complete_response = [s \in Sessions |-> <<>>]
    /\ stop_reason = [s \in Sessions |-> NoReason]
    /\ out = [s \in Sessions |-> <<>>]
    /\ llm = [s \in Sessions |-> FALSE]
    /\ outcome = [s \in Sessions |-> "none"]
    /\ pre = [s \in Sessions |-> {}]
    /\ summaries = {}
    /\ rag_call = NoCall
    /\ relevant_messages = <<>>
    /\ merged_contexts = <<>>

\* what the caller does with the session after a raise matters when the
\* call has written, which it has for an expired code only
Rollbacks(display_code) ==
    IF \E c \in link_codes : c.display_code = display_code /\ c.expires_at <= now
    THEN BOOLEAN ELSE {TRUE}

\* the users who ask for codes; every user may present a code that was
\* handed out
Sources == {1, 2}

NextLink ==
    \/ \E u \in Sources : generate_link_code(u)
    \/ \E c \in DisplayCodes, u \in LinkUsers : \E rollback \in Rollbacks(c) :
          c < nextLinkId /\ validate_and_use_code(c, u, rollback)
    \/ \E u \in Sources : revoke_user_codes(u)
    \/ cleanup_expired_codes
    \/ LinkTick

SpecLink == InitLink /\ [][NextLink]_vars

\* a free user and a user who may be switched to pro and back
InitUsage ==
    /\ users = {[id |-> u, device_count |-> 1, created_at |-> 0, pro_subscription |-> FALSE] :
                    u \in UsageUsers}
    /\ link_codes = {}
    /\ nextLinkId = 1
    /\ link_call = NoLinkCall
    /\ accepted = [c \in DisplayCodes |-> 0]
    /\ messages = {}
    /\ chats = {}
    /\ nextMsgId = 1
    /\ nextChatId = 1
    /\ now = 0
    /\ embedding_client = TRUE
    /\ NoMaintenance
    /\ turns = 0
    /\ pc = [s \in Sessions |-> "idle"]
    /\ req = [s \in Sessions |-> NoReq]
    /\ turn = [s \in Sessions |-> 0]
    /\ pending = [s \in Sessions |-> {}]
    /\ tx_aborted = [s \in Sessions |-> FALSE]
    /\ summary_call = [c \in Callers |-> NoSummaryCall]
    /\ returned = NoReturn
    /\ rag_context = [s \in Sessions |-> <<>>]
    /\ emitted = [s \in Sessions |-> <<>>]
    /\ complete_response = [s \in Sessions |-> <<>>]
    /\ stop_reason = [s \in Sessions |-> NoReason]
    /\ out = [s \in Sessions |-> <<>>]
    /\ llm = [s \in Sessions |-> FALSE]
    /\ outcome = [s \in Sessions |-> "none"]
    /\ pre = [s \in Sessions |-> {}]
    /\ summaries = {}
    /\ rag_call = NoCall
    /\ relevant_messages = <<>>
    /\ merged_contexts = <<>>

NextUsage ==
    \/ \E u \in UsageUsers : tracked[u][now] < MaxCalls /\ track_llm_call(u)
    \/ \E is_pro \in BOOLEAN : set_pro_subscription(2, is_pro)
    \/ NextDay

SpecUsage == InitUsage /\ [][NextUsage]_vars

\* user 1 with two requests in flight at once (two tabs), each in its own
\* database session, on freeform conversations
TabUser == 1

NextTabs ==
    \/ \E s \in Sessions, t \in Clock, m \in UserMessages :
          create_standalone_chat_stream(s, t, TabUser, m)
    \/ \E s \in Sessions, t \in Clock, c \in ChatIds, m \in UserMessages :
          send_standalone_message_stream(s, t, TabUser, c, m, "ok")
    \/ \E s \in Sessions, d \in Deltas : DeltaCount(s) < MaxDeltas /\ StreamChunk(s, d)
    \/ \E s \in Sessions : Resume(s)
    \/ \E s \in Sessions : StreamRaise(s)
    \/ \E s \in Sessions : StreamEnd(s, "end_turn")
    \/ \E s \in Sessions : PersistTurn(s, "both")
    \/ \E s \in Sessions : YieldFinal(s)
    \/ \E s \in Sessions : Return(s)
    \/ \E s \in Sessions : Cancel(s)
    \/ \E s \in Sessions, commit \in BOOLEAN : get_db(s, commit)

SpecTabs == Init /\ [][NextTabs]_vars

\* two users, each with one request in flight in its own database session,
\* interleaved at every suspension point, within one tick of the database
\* clock: on the insight both have, on freeform conversations they create,
\* and on each other's
\* the provider streams of the two users produce different texts
PairChunks(s) == {<<>>, IF s = 1 THEN <<"a">> ELSE <<"b">>}

NextPair ==
    \/ \E s \in Sessions, t \in {now}, m \in UserMessages :
          send_message_stream(s, t, s, 1, m, "ok")
    \/ \E s \in Sessions, t \in {now}, c \in ChatIds, m \in UserMessages :
          send_standalone_message_stream(s, t, s, c, m, "ok")
    \/ \E s \in Sessions, t \in {now}, m \in UserMessages :
          create_standalone_chat_stream(s, t, s, m)
    \/ \E s \in Sessions : \E d \in PairChunks(s) :
          DeltaCount(s) < MaxChunks /\ StreamChunk(s, d)
    \/ \E s \in Sessions : Resume(s)
    \/ \E s \in Sessions : StreamRaise(s)
    \/ \E s \in Sessions : StreamEnd(s, "end_turn")
    \/ \E s \in Sessions : PersistTurn(s, "both")
    \/ \E s \in Sessions : YieldFinal(s)
    \/ \E s \in Sessions : Return(s)
    \/ \E s \in Sessions : Cancel(s)
    \/ \E s \in Sessions, commit \in BOOLEAN : get_db(s, commit)

SpecPair == Init /\ [][NextPair]_vars

\* the expander on the conversation a number of completed turns has left:
\* a user row and a reply row per turn, both with the transaction's
\* timestamp, each with or without an embedding
StampSteps(n) ==
    {T \in [1..n -> 0..n] : /\ T[1] <= 1
                            /\ \A k \in 1..(n - 1) : T[k + 1] - T[k] \in {0, 1}}

PairRows(n, T, E) ==
    {[id |-> 2 * k - 1, kind |-> "insight", conv |-> 1, user_id |-> 1, role |-> "user",
      content |-> <<"q">>, was_truncated |-> FALSE, created_at |-> T[k],
      embedding |-> IF E[2 * k - 1] THEN get_embedding(<<"q">>) ELSE NoEmbedding,
      turn |-> k] : k \in 1..n}
    \cup
    {[id |-> 2 * k, kind |-> "insight", conv |-> 1, user_id |-> 1, role |-> "assistant",
      content |-> <<"a">>, was_truncated |-> FALSE, created_at |-> T[k],
      embedding |-> IF E[2 * k] THEN get_embedding(<<"a">>) ELSE NoEmbedding,
      turn |-> k] : k \in 1..n}

InitExpand ==
    /\ \E n \in 1..MaxPairs : \E T \in StampSteps(n) : \E E \in [1..(2 * n) -> BOOLEAN] :
           /\ messages = PairRows(n, T, E)
           /\ nextMsgId = 2 * n + 1
           /\ now = T[n]
           /\ turns = n
    /\ chats = {}
    /\ nextChatId = 1
    /\ embedding_client = TRUE
    /\ NoMaintenance
    /\ NoLinking
    /\ pc = [s \in Sessions |-> "idle"]
    /\ req = [s \in Sessions |-> NoReq]
    /\ turn = [s \in Sessions |-> 0]
    /\ pending = [s \in Sessions |-> {}]
    /\ tx_aborted = [s \in Sessions |-> FALSE]
    /\ summary_call = [c \in Callers |-> NoSummaryCall]
    /\ returned = NoReturn
    /\ rag_context = [s \in Sessions |-> <<>>]
    /\ emitted = [s \in Sessions |-> <<>>]
    /\ complete_response = [s \in Sessions |-> <<>>]
    /\ stop_reason = [s \in Sessions |-> NoReason]
    /\ out = [s \in Sessions |-> <<>>]
    /\ llm = [s \in Sessions |-> FALSE]
    /\ outcome = [s \in Sessions |-> "none"]
    /\ pre = [s \in Sessions |-> {}]
    /\ summaries = {}
    /\ rag_call = NoCall
    /\ relevant_messages = <<>>
    /\ merged_contexts = <<>>

ExpandLimits == {1, 2, 3, RAG_CONTEXT_LIMIT}

NextExpand ==
    \E limit \in ExpandLimits :
        /\ rag_call = NoCall
        /\ get_enhanced_rag_context(1, <<"q">>, "insight", 0, limit, TRUE, "text")

SpecExpand == InitExpand /\ [][NextExpand]_vars

\* the end-to-end scenario: user 1 has opened freeform conversation 1 with a
\* message like the query, then conversation 2 with an unrelated message,
\* and may have come back to conversation 1; every turn left its two rows,
\* embedded as far as the embedding calls of the turn went
ScenarioTurns == {2, 3}

\* the conversation of the k-th turn
ScenarioChat(k) == IF k = 2 THEN 2 ELSE 1

Unrelated == <<"x", "y", "z">>

ScenarioRows(n, T, E) ==
    {[id |-> 2 * k - 1, kind |-> "standalone", conv |-> ScenarioChat(k), user_id |-> NoUser,
      role |-> "user",
      content |-> IF k = 2 THEN Unrelated ELSE <<"q">>,
      was_truncated |-> FALSE, created_at |-> T[k],
      embedding |-> IF E[k] = "neither" THEN NoEmbedding
                    ELSE get_embedding(IF k = 2 THEN Unrelated ELSE <<"q">>),
      turn |-> k] : k \in 1..n}
    \cup
    {[id |-> 2 * k, kind |-> "standalone", conv |-> ScenarioChat(k), user_id |-> NoUser,
      role |-> "assistant",
      content |-> IF k = 2 THEN Unrelated ELSE <<"a">>,
      was_truncated |-> FALSE, created_at |-> T[k],
      embedding |-> IF E[k] = "both"
                    THEN get_embedding(IF k = 2 THEN Unrelated ELSE <<"a">>)
                    ELSE NoEmbedding,
      turn |-> k] : k \in 1..n}

ScenarioChats(n, T) ==
    {[id |-> 1, user_id |-> 1, title |-> Title(<<"q">>), updated_at |-> T[IF n = 3 THEN 3 ELSE 1]],
     [id |-> 2, user_id |-> 1, title |-> Title(Unrelated), updated_at |-> T[2]]}

InitScenario ==
    /\ \E n \in ScenarioTurns : \E T \in StampSteps(n) : \E E \in [1..n -> EmbeddingOutcomes] :
           /\ messages = ScenarioRows(n, T, E)
           /\ chats = ScenarioChats(n, T)
           /\ nextMsgId = 2 * n + 1
           /\ now = T[n]
           /\ turns = n
    /\ nextChatId = 3
    /\ embedding_client = TRUE
    /\ NoMaintenance
    /\ NoLinking
    /\ pc = [s \in Sessions |-> "idle"]
    /\ req = [s \in Sessions |-> NoReq]
    /\ turn = [s \in Sessions |-> 0]
    /\ pending = [s \in Sessions |-> {}]
    /\ tx_aborted = [s \in Sessions |-> FALSE]
    /\ summary_call = [c \in Callers |-> NoSummaryCall]
    /\ returned = NoReturn
    /\ rag_context = [s \in Sessions |-> <<>>]
    /\ emitted = [s \in Sessions |-> <<>>]
    /\ complete_response = [s \in Sessions |-> <<>>]
    /\ stop_reason = [s \in Sessions |-> NoReason]
    /\ out = [s \in Sessions |-> <<>>]
    /\ llm = [s \in Sessions |-> FALSE]
    /\ outcome = [s \in Sessions |-> "none"]
    /\ pre = [s \in Sessions |-> {}]
    /\ summaries = {}
    /\ rag_call = NoCall
    /\ relevant_messages = <<>>
    /\ merged_contexts = <<>>

NextScenario ==
    \E limit \in Limits, ai \in {"text", "none"} :
        /\ rag_call = NoCall
        /\ get_enhanced_rag_context(1, <<"q">>, "standalone", 0, limit, TRUE, ai)

SpecScenario == InitScenario /\ [][NextScenario]_vars

\* ------------------------------------------------------------------ claims
\* what the caller of the running call of s has received: its token chunks
Tokens(s) ==
    {i \in 1..Len(out[s]) : out[s][i][1] # <<>> /\ out[s][i][1][1] # CHAT_ID_MARKER}

\* the committed messages of the running call of s
TurnMessages(s) == {m \in messages : m.turn = turn[s]}

\* the committed messages of the conversation the running call of s is about
ConversationMessages(s) ==
    IF req[s].variant = "insight"
    THEN get_chat_messages(req[s].conv, req[s].user_id)
    ELSE {m \in messages : m.kind = "standalone" /\ m.conv = req[s].conv}

\* the provider stream of a send_message_stream or
\* send_standalone_message_stream call has raised
SendRaised(s) ==
    /\ pc[s] = "ended"
    /\ outcome[s] = "raised"
    /\ llm[s]
    /\ req[s].variant \in {"insight", "standalone"}

\* C1: once send_message_stream or send_standalone_message_stream has
\* re-raised a provider error (after zero or more chunks), the committed
\* messages of the conversation are exactly those from before the call:
\* no user message, no assistant message, no partial reply of this turn.
C1_RaiseLeavesConversation ==
    \A s \in Sessions :
        SendRaised(s) => /\ TurnMessages(s) = {}
                         /\ ConversationMessages(s) = pre[s]

\* a call on a conversation that already has messages raised after a token
C1_Witness ==
    \E s \in Sessions : SendRaised(s) /\ pre[s] # {} /\ Tokens(s) # {}

\* C2: the committed messages of any one turn are none, or exactly the
\* turn's user message and its assistant reply in one conversation; and a
\* freeform conversation's updated_at is committed together with its latest
\* pair: it equals the created_at of its newest committed message.
C2_TurnPairAtomic ==
    /\ \A k \in Turns :
           LET M == {m \in messages : m.turn = k}
           IN  \/ M = {}
               \/ \E u, a \in M : /\ M = {u, a}
                                  /\ u.role = "user"
                                  /\ a.role = "assistant"
                                  /\ u.kind = a.kind
                                  /\ u.conv = a.conv
    /\ \A c \in chats :
           LET M == {m \in messages : m.kind = "standalone" /\ m.conv = c.id}
           IN  M # {} => /\ \A m \in M : m.created_at <= c.updated_at
                         /\ \E m \in M : m.created_at = c.updated_at

\* a follow-up pair was committed to a conversation at a later time than
\* its first pair
C2_Witness ==
    \E c \in chats :
        \E m, n \in messages :
            /\ m.kind = "standalone" /\ m.conv = c.id
            /\ n.kind = "standalone" /\ n.conv = c.id
            /\ m.turn # n.turn
            /\ m.created_at < n.created_at

\* both rows of the running call of s are committed, complete
BothCommitted(s) ==
    \E u, a \in TurnMessages(s) :
        /\ u.role = "user" /\ u.content = req[s].user_message
        /\ a.role = "assistant" /\ a.content = complete_response[s]
        /\ u.conv = req[s].conv /\ a.conv = req[s].conv

\* C3: a caller that has received the final pair (the one carrying the stop
\* reason) finds both messages of the turn committed; a caller of
\* create_standalone_chat_stream that has received the chat-id marker finds
\* the conversation it names committed, its own, with both messages.
C3_DoneAfterCommit ==
    \A s \in Sessions :
        \A i \in 1..Len(out[s]) :
            LET chunk == out[s][i][1]
                reason == out[s][i][2]
            IN  /\ reason \in StopReasons => BothCommitted(s)
                /\ (chunk # <<>> /\ chunk[1] = CHAT_ID_MARKER) =>
                       /\ BothCommitted(s)
                       /\ \E c \in get_standalone_chats(req[s].user_id) :
                              /\ ToString(c.id) = chunk[2]
                              /\ c.id = req[s].conv

\* a create_standalone_chat_stream call has yielded tokens, the marker and
\* the final pair
C3_Witness ==
    \E s \in Sessions :
        /\ req[s].variant = "create"
        /\ pc[s] = "fin"
        /\ Tokens(s) # {}

\* C4: a caller that has received no token chunk from a turn finds no
\* message of that turn recorded, whatever the provider stream was.
C4_ZeroTokensNothingRecorded ==
    \A s \in Sessions :
        (pc[s] # "idle" /\ Tokens(s) = {}) => TurnMessages(s) = {}

\* C5: every message a retrieval returns is owned by the user it was run
\* for: the context ChatService retrieved for a running call, and the
\* relevant messages of a RagService call, with or without an exclusion.
C5_RetrievalOwnedByRequester ==
    /\ \A s \in Sessions :
           \A i \in 1..Len(rag_context[s]) :
               Owner(rag_context[s][i]) = req[s].user_id
    /\ \A i \in 1..Len(relevant_messages) :
           Owner(relevant_messages[i]) = rag_call.user_id

\* a RagService retrieval returned messages while another user had
\* retrievable messages of the same kind
C5_Witness ==
    /\ relevant_messages # <<>>
    /\ \E m \in messages :
           /\ m.kind = rag_call.conversation_type
           /\ m.embedding # NoEmbedding
           /\ Owner(m) \in Users \ {rag_call.user_id}

\* C6: every message the expander places in a merged excerpt's before,
\* between or after list is owned by the user who issued the retrieval.
C6_ExpanderOwnedByRequester ==
    \A i \in 1..Len(merged_contexts) :
        LET c == merged_contexts[i]
        IN  \A part \in {c.messages_before, c.messages_between, c.messages_after} :
                \A j \in 1..Len(part) : Owner(part[j]) = rag_call.user_id

\* the messages of the store that user_id owns
OwnMessages(user_id) == {m \in messages : Owner(m) = user_id}

\* C7: the summary of every merged excerpt of a retrieval by user U is the
\* one summary_for produces from U's own messages alone (for one of the
\* answers the summary provider can give).
C7_SummaryDependsOnOwnMessages ==
    \A i \in 1..Len(merged_contexts) :
        LET c == merged_contexts[i]
        IN  \E ai \in {"text", "none"} :
                c.summary = _get_or_create_conversation_summary(
                                OwnMessages(rag_call.user_id), {}, c.conversation_type,
                                c.conversation_id, ai).summary

\* the conversation the running call of s addresses is not the user's
NotOwned(s) ==
    \/ req[s].variant = "insight" /\ ~InsightLinked(req[s].user_id, req[s].conv)
    \/ req[s].variant = "standalone" /\ OwnedChat(req[s].conv, req[s].user_id) = {}

\* C8: a turn addressed to a conversation the requesting user does not own
\* is rejected at entry: the provider is never invoked, no token is yielded,
\* nothing is persisted.
C8_ForeignConversationRejected ==
    \A s \in Sessions :
        (pc[s] # "idle" /\ NotOwned(s)) =>
            /\ ~llm[s]
            /\ Tokens(s) = {}
            /\ TurnMessages(s) = {}

\* the provider stream of a create_standalone_chat_stream call has raised
CreateRaised(s) ==
    /\ pc[s] = "ended"
    /\ outcome[s] = "raised"
    /\ req[s].variant = "create"

\* neither the conversation of the running call of s nor a message of it is
\* committed
NothingOfConversation(s) ==
    /\ \A c \in get_standalone_chats(req[s].user_id) : c.id # req[s].conv
    /\ \A m \in messages : ~(m.kind = "standalone" /\ m.conv = req[s].conv)

NonEmpty(pair) == pair[1] # <<>>

Cancelled(s) == pc[s] = "ended" /\ outcome[s] = "cancelled"

\* C10: a turn whose caller stopped consuming mid-stream persists nothing:
\* no message, no pre-allocated conversation, and the finalisation of the
\* request's session commits nothing either.
C10_CancelPersistsNothing ==
    /\ [](\A s \in Sessions :
              Cancelled(s) => /\ TurnMessages(s) = {}
                              /\ (req[s].variant = "create" => NothingOfConversation(s)))
    /\ [][\A s \in Sessions :
              Cancelled(s) => (chats' = chats /\ messages' = messages)]_vars

\* a pair that carries a token: not empty, not the chat-id marker
IsToken(pair) == pair[1] # <<>> /\ pair[1][1] # CHAT_ID_MARKER

\* the token pairs the caller of the running call of s has received
ForwardedTokens(s) == SelectSeq(out[s], IsToken)

\* "".join(chunk for chunk, _ in pairs)
RECURSIVE Concat(_)
Concat(pairs) == IF pairs = <<>> THEN <<>> ELSE pairs[1][1] \o Concat(Tail(pairs))

\* C11: at every point of a streaming call the tokens the caller has
\* received are exactly the non-empty chunks the provider has produced so
\* far, in order and once each (a chunk is with the caller before the next
\* one is asked for); once the turn is committed, the assistant row holds the
\* concatenation of the forwarded chunks and the user row the submitted
\* message.
C11_ForwardedChunksAndContent ==
    \A s \in Sessions :
        /\ ForwardedTokens(s) = SelectSeq(emitted[s], NonEmpty)
        /\ TurnMessages(s) # {} =>
               \E u, a \in TurnMessages(s) :
                   /\ u.role = "user" /\ u.content = req[s].user_message
                   /\ a.role = "assistant"
                   /\ a.content = Concat(ForwardedTokens(s))

\* a turn has been committed whose provider stream held two different
\* tokens and an empty chunk
C11_Witness ==
    \E s \in Sessions :
        /\ pc[s] = "fin"
        /\ Len(ForwardedTokens(s)) = 2
        /\ ForwardedTokens(s)[1] # ForwardedTokens(s)[2]
        /\ Len(emitted[s]) > 2

\* the stop reason the provider stream of the running call of s reported
ProviderStop(s) == emitted[s][Len(emitted[s])][2]

\* C12: in all three variants the committed assistant row is flagged as
\* truncated if and only if the provider stream reported max_tokens; the
\* user row is never flagged.
C12_TruncatedIffMaxTokens ==
    \A s \in Sessions :
        \A m \in TurnMessages(s) :
            m.was_truncated = (m.role = "assistant" /\ ProviderStop(s) = "max_tokens")

\* all three variants have committed a turn: a first message cut at the
\* length limit, and a follow-up or an insight turn that ended otherwise
C12_Witness ==
    \E s \in Sessions :
        /\ req[s].variant \in {"insight", "standalone"}
        /\ TurnMessages(s) # {}
        /\ ProviderStop(s) = "stop_sequence"
        /\ \E m \in messages : m.kind = "standalone" /\ m.was_truncated

\* C13: whatever the embedding provider does during the Persisting step
\* (of a turn whose database transaction is usable), the step commits both
\* messages and yields the next pair to the caller without raising; a
\* committed message carries the embedding of its content or, where that was
\* not obtained, a null embedding.
C13_EmbeddingFailureStillPersists ==
    /\ [][\A s \in Sessions :
              (pc[s] = "persisting" /\ ~tx_aborted[s]) =>
                  /\ pc'[s] \in {"marker", "fin"}
                  /\ outcome'[s] = "none"
                  /\ BothCommitted(s)'
                  /\ out'[s] = Append(out[s], AfterCommit(s))]_vars
    /\ [](\A m \in messages :
              m.embedding \in {NoEmbedding, get_embedding(m.content)})

\* with an embedding provider configured, a turn got its done signal with
\* the user row embedded and the reply row not: the second get_embedding
\* call raised
C13_Witness ==
    \E s \in Sessions :
        /\ embedding_client
        /\ pc[s] = "fin"
        /\ \E u, a \in TurnMessages(s) :
               /\ u.role = "user" /\ u.embedding # NoEmbedding
               /\ a.role = "assistant" /\ a.embedding = NoEmbedding
        /\ out[s][Len(out[s])][2] \in StopReasons

\* C14: a retrieval that cannot run (no embedding provider) or that raises
\* (while encoding the query, or in the vector-store query) hands an empty
\* context to the call, which goes on to generation; and a call whose stream
\* has completed commits both messages.
C14_RetrievalFailureNotFatal ==
    /\ [][\A s \in Sessions, t \in 0..MaxTime, m \in UserMessages,
             r \in RetrievalOutcomes :
              (~embedding_client \/ r # "ok") =>
                  /\ \A i \in Insights :
                         send_message_stream(s, t, s, i, m, r) =>
                             (rag_context'[s] = <<>> /\ pc'[s] = "generating")
                  /\ \A c \in ChatIds :
                         (OwnedChat(c, s) # {}
                            /\ send_standalone_message_stream(s, t, s, c, m, r)) =>
                             (rag_context'[s] = <<>> /\ pc'[s] = "generating")]_vars
    /\ [][\A s \in Sessions :
              pc[s] = "persisting" => (pc'[s] \in {"marker", "fin"} /\ BothCommitted(s)')]_vars

\* the messages a retrieval for user_id may return: owned by the user, with
\* an embedding, outside the excluded conversation (0: none excluded)
Eligible(conversation_type, user_id, exclude) ==
    {m \in messages : /\ m.kind = conversation_type
                      /\ Owner(m) = user_id
                      /\ m.embedding # NoEmbedding
                      /\ (exclude # 0 => m.conv # exclude)}

\* hits lie in E, none twice, by non-decreasing distance to the query
RankedWithin(hits, E, query) ==
    /\ \A i \in 1..Len(hits) : hits[i] \in E
    /\ \A i, j \in 1..Len(hits) : i < j =>
           /\ hits[i] # hits[j]
           /\ cosine_distance(hits[i].embedding, get_embedding(query))
                  <= cosine_distance(hits[j].embedding, get_embedding(query))

\* C15: a retrieval that ran returns min(limit, |E|) messages of the
\* eligible set E (owned by the requesting user, with an embedding, outside
\* the excluded conversation), by non-decreasing distance to the query
\* vector, and no eligible message left out is nearer than one returned; the
\* context ChatService retrieved for a running call is ranked the same way
\* within its eligible set.
C15_NearestEligible ==
    /\ (embedding_client /\ rag_call.ok) =>
           LET E == Eligible(rag_call.conversation_type, rag_call.user_id,
                             rag_call.current_conversation_id)
               q == get_embedding(rag_call.query)
           IN  /\ Len(relevant_messages) = Min(rag_call.limit, Cardinality(E))
               /\ RankedWithin(relevant_messages, E, rag_call.query)
               /\ \A i \in 1..Len(relevant_messages) :
                      \A x \in E \ {relevant_messages[j] : j \in 1..Len(relevant_messages)} :
                          cosine_distance(relevant_messages[i].embedding, q)
                              <= cosine_distance(x.embedding, q)
    /\ \A s \in Sessions :
           RankedWithin(rag_context[s],
                        Eligible(IF req[s].variant = "insight" THEN "insight"
                                 ELSE "standalone", req[s].user_id, req[s].conv),
                        req[s].user_message)

\* a retrieval with an exclusion and limit 1 had to choose between eligible
\* messages at different distances, and left out the farther one as well as
\* the embedded messages of the excluded conversation
C15_Witness ==
    /\ embedding_client /\ rag_call.ok
    /\ rag_call.limit = 1
    /\ rag_call.current_conversation_id # 0
    /\ Len(relevant_messages) = 1
    /\ \E x \in Eligible(rag_call.conversation_type, rag_call.user_id,
                         rag_call.current_conversation_id) :
           cosine_distance(x.embedding, get_embedding(rag_call.query))
               > cosine_distance(relevant_messages[1].embedding,
                                 get_embedding(rag_call.query))
    /\ \E m \in Eligible(rag_call.conversation_type, rag_call.user_id, 0) :
           m.conv = rag_call.current_conversation_id

\* the elements of a sequence
Range(seq) == {seq[i] : i \in 1..Len(seq)}

\* the conversations the hits of the retrieval belong to
HitConversations == {relevant_messages[i].conv : i \in 1..Len(relevant_messages)}

\* C20: the excerpts of a retrieval are one per distinct conversation of its
\* hits: no conversation without a hit appears and none appears twice, no
\* matched list is empty, every matched message is a hit, every hit is in
\* the matched list of the excerpt of its own conversation and of no other,
\* and the summary cache holds one entry per appearing conversation (one
\* summary request each) however many of its messages matched.
C20_OneExcerptPerConversation ==
    /\ Len(merged_contexts) = Cardinality(HitConversations)
    /\ \A i \in 1..Len(merged_contexts) :
           /\ merged_contexts[i].conversation_id \in HitConversations
           /\ merged_contexts[i].matched_messages # <<>>
           /\ Range(merged_contexts[i].matched_messages) \subseteq Range(relevant_messages)
           /\ \A j \in 1..Len(merged_contexts) :
                  merged_contexts[j].conversation_id = merged_contexts[i].conversation_id
                      => j = i
    /\ \A h \in 1..Len(relevant_messages) :
           \A i \in 1..Len(merged_contexts) :
               (relevant_messages[h] \in Range(merged_contexts[i].matched_messages))
                   <=> (merged_contexts[i].conversation_id = relevant_messages[h].conv)
    /\ \A i \in 1..Len(merged_contexts) :
           \A j, k \in 1..Len(merged_contexts[i].matched_messages) :
               merged_contexts[i].matched_messages[j] = merged_contexts[i].matched_messages[k]
                   => j = k
    /\ {e.conversation_id : e \in summaries} = HitConversations
    /\ Cardinality(summaries) = Cardinality(HitConversations)

\* a retrieval hit two conversations, one of them more than once
C20_Witness ==
    /\ rag_call # NoCall
    /\ Len(merged_contexts) = 2
    /\ \E i \in 1..2 : Len(merged_contexts[i].matched_messages) >= 2
    /\ Len(relevant_messages) >= 3

\* a step in which a summary call returns to its caller
SummaryReturn ==
    \/ returned' # returned
    \/ \E c \in Callers : summary_call[c].pc = "generating" /\ summary_call'[c].pc = "idle"

\* the call returning in this step follows the call that returned last, for
\* the same conversation, with no other call running meanwhile
InARow ==
    /\ SummaryReturn
    /\ returned.conversation_type # "none"
    /\ returned'.conversation_type = returned.conversation_type
    /\ returned'.conversation_id = returned.conversation_id
    /\ ~returned'.overlapped

\* the cache row of the returning call's conversation holds its text and the
\* message count it saw
Upserted ==
    {e \in summaries' : /\ e.conversation_type = returned'.conversation_type
                        /\ e.conversation_id = returned'.conversation_id}
        = {[conversation_type |-> returned'.conversation_type,
            conversation_id |-> returned'.conversation_id,
            summary_text |-> returned'.text,
            message_count |-> Cardinality(returned'.rows)]}

ReadFailed == returned'.step = "read" /\ returned'.db = "raise"

C17_CountsNeverDecrease ==
    [][/\ \A ty \in ConversationTypes, id \in ChatIds :
              Cardinality(ConversationRows(messages', ty, id))
                  >= Cardinality(ConversationRows(messages, ty, id))
       /\ \A e \in summaries :
              \A f \in CacheRows(summaries', e.conversation_type, e.conversation_id) :
                  f.message_count >= e.message_count]_vars

\* what the last returned call returned is a text, and the fixed fallback
\* of its case
FallbackTexts ==
    /\ ~returned.raised
    /\ returned.step # "none" => returned.text # <<>>
    /\ returned.db = "raise" =>
           (returned.text = <<"Previous conversation">> /\ ~returned.stored)
    /\ (returned.db = "raise" /\ returned.step = "read") => returned.llm = 0
    /\ returned.conflict => returned.text = <<"Previous conversation">>
    /\ (returned.step = "store" /\ returned.db = "ok" /\ ~returned.conflict) =>
           /\ returned.rows = {} =>
                  (returned.text = <<"Empty conversation">> /\ returned.llm = 0)
           /\ (returned.rows # {} /\ returned.ai = "none") =>
                  returned.text = <<"Discussion about biblical topics">>
           /\ (returned.rows # {} /\ returned.ai = "raise") =>
                  returned.text = <<"Previous conversation">>

\* C18: a summary call always returns a text and never raises: a failed
\* query or store operation gives "Previous conversation" and leaves the
\* cache alone, a provider that answers nothing gives "Discussion about
\* biblical topics", one that raises gives "Previous conversation", and a
\* conversation without messages gives "Empty conversation" with no request
\* to the provider; the caller goes on (the call is over).
C18_SummaryNeverRaises ==
    /\ []FallbackTexts
    /\ [][(SummaryReturn /\ returned'.db = "raise") => summaries' = summaries]_vars
    /\ [][\A c \in Callers : summary_call[c].pc = "generating" =>
              (summary_call'[c] = summary_call[c]
                 \/ summary_call'[c].pc = "idle"
                 \/ summary_call'[c] = [summary_call[c] EXCEPT !.overlapped = TRUE])]_vars

\* a call whose store operation failed after the provider had answered
\* returned the fallback
C18_Witness ==
    /\ returned.llm = 1 /\ ~returned.stored /\ ~returned.conflict
    /\ returned.step = "store" /\ returned.db = "raise" /\ returned.ai = "text"
    /\ returned.text = <<"Previous conversation">>
    /\ ~returned.raised

\* C19: the cache never holds two rows of one conversation, also when two
\* calls for an uncached conversation interleave and both insert: the later
\* INSERT is refused, and that call still returns a text.
C19_OneEntryPerConversation ==
    /\ \A e, f \in summaries :
           (e.conversation_type = f.conversation_type
              /\ e.conversation_id = f.conversation_id) => e = f
    /\ ~returned.raised
    /\ returned.conversation_type # "none" => returned.text # <<>>
    /\ returned.conflict => (returned.overlapped /\ ~returned.stored)

\* of two interleaved calls that both missed, the second to insert was
\* refused and returned the fallback
C19_Witness ==
    /\ returned.conflict /\ returned.overlapped /\ ~returned.cached
    /\ returned.text = <<"Previous conversation">>
    /\ Cardinality(summaries) = 1

\* the rows of the conversation an excerpt is about
ExcerptConversation(ctx) ==
    ConversationRows(messages, ctx.conversation_type, ctx.conversation_id)

\* T0 and T1: the earliest and the latest timestamp of the excerpt's matches
EarliestMatch(ctx) ==
    CHOOSE t \in {ctx.matched_messages[i].created_at : i \in 1..Len(ctx.matched_messages)} :
        \A i \in 1..Len(ctx.matched_messages) : t <= ctx.matched_messages[i].created_at

LatestMatch(ctx) ==
    CHOOSE t \in {ctx.matched_messages[i].created_at : i \in 1..Len(ctx.matched_messages)} :
        \A i \in 1..Len(ctx.matched_messages) : t >= ctx.matched_messages[i].created_at

\* a list without repetition, oldest first
Chronological(seq) ==
    \A i, j \in 1..Len(seq) :
        i < j => (seq[i] # seq[j] /\ seq[i].created_at <= seq[j].created_at)

\* the rows of the conversation with a timestamp strictly between T0 and T1
StrictlyBetween(ctx) ==
    {m \in ExcerptConversation(ctx) :
        EarliestMatch(ctx) < m.created_at /\ m.created_at < LatestMatch(ctx)}

GroupHits(ctx) ==
    {m \in Range(relevant_messages) : m.conv = ctx.conversation_id}

\* seq lists min(n, |S|) rows of S, each once, oldest first
ListsFrom(seq, S, n) ==
    /\ Len(seq) = Min(n, Cardinality(S))
    /\ Range(seq) \subseteq S
    /\ Chronological(seq)

Rendered(ctx) == SelectSeq(ExcerptLines(ctx), LAMBDA l : l.kind = "message")

\* C23: the rendering of every excerpt is one continuous thread: each
\* message is rendered once, in chronological order, every row of the
\* conversation appended between the first and the last rendered row is
\* rendered, exactly the hits carry the marker, and the summary header
\* appears once.
C23_ContinuousThread ==
    \A i \in 1..Len(merged_contexts) :
        LET ctx == merged_contexts[i]
            lines == Rendered(ctx)
            shown == {lines[j].msg : j \in 1..Len(lines)}
        IN  /\ \A j, k \in 1..Len(lines) :
                   j < k => /\ lines[j].msg # lines[k].msg
                            /\ lines[j].msg.created_at <= lines[k].msg.created_at
            /\ \A m \in ExcerptConversation(ctx) :
                   (\E a, b \in shown : a.id <= m.id /\ m.id <= b.id) => m \in shown
            /\ \A j \in 1..Len(lines) : lines[j].marker <=> lines[j].msg \in GroupHits(ctx)
            /\ GroupHits(ctx) \subseteq shown
            /\ Cardinality({j \in 1..Len(ExcerptLines(ctx)) :
                               ExcerptLines(ctx)[j].kind = "summary"}) = 1

\* the rows of a freeform conversation
Freeform(chat_id) == ConversationRows(messages, "standalone", chat_id)

\* the retrieval was the end-to-end call of the scenario: freeform, no
\* conversation excluded, limit 5, and it ran
EndToEndCall ==
    /\ embedding_client /\ rag_call.ok
    /\ rag_call.conversation_type = "standalone"
    /\ rag_call.current_conversation_id = 0
    /\ rag_call.limit = RAG_CONTEXT_LIMIT

\* the user of the call has exactly the conversations A and B; A holds an
\* embedded message at distance 0 from the query, and no message of B is
\* that near
SimilarAndUnrelated(A, B) ==
    /\ A # B
    /\ {c.id : c \in get_standalone_chats(rag_call.user_id)} = {A, B}
    /\ \E m \in Freeform(A) :
           /\ m.embedding # NoEmbedding
           /\ cosine_distance(m.embedding, get_embedding(rag_call.query)) = 0
    /\ Freeform(B) # {}
    /\ \A m \in Freeform(B) :
           m.embedding # NoEmbedding =>
               cosine_distance(m.embedding, get_embedding(rag_call.query)) > 0

\* C24: a user has two freeform conversations, A with a message similar to
\* the query and B with none; the retrieval with limit 5, grouped and
\* expanded, returns one excerpt, for A, and none for B.
C24_OnlySimilarConversation ==
    EndToEndCall =>
        \A A, B \in ChatIds :
            SimilarAndUnrelated(A, B) =>
                /\ Len(merged_contexts) = 1
                /\ merged_contexts[1].conversation_id = A

\* a list in the order its rows were appended (ids are given in that order:
\* the user's row, then the reply, turn after turn)
AppendOrder(L) == \A j, k \in 1..Len(L) : j < k => L[j].id < L[k].id

\* C25: whatever list get_chat_messages / get_standalone_chat_messages
\* returns for a conversation, its messages are in the order they were
\* appended: each user message right before its reply, turns in the order
\* they completed.
C25_ListedInAppendOrder ==
    /\ \A u \in Users, i \in Insights :
           \A L \in order_by_created_at(get_chat_messages(i, u)) : AppendOrder(L)
    /\ \A u \in Users, c \in ChatIds :
           \A L \in order_by_created_at(get_standalone_chat_messages(c, u)) : AppendOrder(L)

\* the call of s commits its turn in this step
TurnCommits(s) == pc[s] = "persisting" /\ pc'[s] \in {"marker", "fin"}

\* when the last turn of a freeform conversation completed: message ids are
\* given in the order of the commits
LastTurn(c) ==
    LET ids == {m.id : m \in ConversationRows(messages, "standalone", c.id)}
    IN  IF ids = {} THEN 0 ELSE CHOOSE i \in ids : \A j \in ids : i >= j

\* C26: when a turn in a freeform conversation commits, no conversation of
\* the same user has a later updated_at; conversations with a completed turn
\* and different updated_at are thereby listed by get_standalone_chats in the order of
\* their last completed turn, most recent first; and a call that raises
\* leaves the conversations as they were.
C26_RecencyOrder ==
    /\ [][\A s \in Sessions :
              (TurnCommits(s) /\ req[s].variant \in {"standalone", "create"}) =>
                  \A c, d \in chats' :
                      (c.id = req[s].conv /\ d.user_id = c.user_id) =>
                          c.updated_at >= d.updated_at]_vars
    /\ [](\A c, d \in chats :
              (/\ c.user_id = d.user_id
               /\ LastTurn(c) > 0 /\ LastTurn(d) > 0
               /\ c.updated_at > d.updated_at) => LastTurn(c) > LastTurn(d))
    /\ [][\A s \in Sessions :
              (outcome[s] # "raised" /\ outcome'[s] = "raised") => chats' = chats]_vars

\* the conversations of other users
NotOwnedBy(u) == {c \in chats : c.user_id # u}

\* C27: get_standalone_chats(u) holds conversations of u only; for a
\* conversation u does not own get_standalone_chat_messages returns no rows,
\* and a delete_standalone_chat call on it returned False and changed
\* neither the conversations nor the messages.
C27_OwnerOnly ==
    /\ \A u \in Users : \A c \in get_standalone_chats(u) : c.user_id = u
    /\ \A u \in Users : \A c \in NotOwnedBy(u) : get_standalone_chat_messages(c.id, u) = {}
    /\ (deleted.called /\ ~deleted.changed) => ~deleted.result
    /\ (deleted.called /\ \E c \in chats : c.id = deleted.chat_id /\ c.user_id # deleted.user_id)
           => (~deleted.result /\ ~deleted.changed)

\* a user asked to delete the other user's conversation, which has messages
C27_Witness ==
    /\ deleted.called
    /\ \E c \in NotOwnedBy(deleted.user_id) :
           /\ c.id = deleted.chat_id
           /\ \E m \in messages : m.kind = "standalone" /\ m.conv = c.id

\* C28: a step leaves every embedding that is set as it is, in whatever row
\* of the step's result has the message's id; and the rows the backfill is
\* about to write are rows it read without an embedding.
C28_EmbeddingsImmutable ==
    /\ [][\A m \in messages : \A n \in messages' :
              (m.embedding # NoEmbedding /\ n.id = m.id) => n.embedding = m.embedding]_vars
    /\ [](\A m \in backfill.batch : m.embedding = NoEmbedding)

\* the backfill committed embeddings beside a message that had its own
C28_Witness ==
    /\ backfill.written # {}
    /\ \E m \in messages : m.id \in backfill.written /\ m.embedding # NoEmbedding
    /\ \E m \in messages : m.id \notin backfill.written /\ m.embedding # NoEmbedding

\* C29: no display code is accepted twice, and a validate_and_use_code call
\* on a code accepted before raised and changed neither users nor
\* conversations nor messages.
C29_AcceptedAtMostOnce ==
    /\ \A c \in DisplayCodes : accepted[c] <= 1
    /\ (link_call.op = "validate" /\ link_call.reused)
           => (link_call.raised /\ ~link_call.changed)

\* another user presented a code that was used and is still unexpired
C29_Witness ==
    /\ link_call.op = "validate"
    /\ link_call.reused
    /\ link_call.error = "This code has already been used"
    /\ \E c \in link_codes : /\ c.display_code = link_call.display_code
                             /\ c.status = "used"
                             /\ c.expires_at > now

\* C30: no user has more than MAX_ACTIVE_CODES_PER_USER codes that are
\* pending and unexpired, and a generate_link_code call that found that many
\* raised and added no code.
C30_ActiveCodesCapped ==
    /\ \A u \in LinkUsers : Cardinality(ActiveCodes(u)) <= MAX_ACTIVE_CODES_PER_USER
    /\ (link_call.op = "generate" /\ link_call.active >= MAX_ACTIVE_CODES_PER_USER)
           => (link_call.raised /\ ~link_call.created)

\* generate_link_code was refused with the cap reached, after an earlier
\* code of the user had expired
C30_Witness ==
    /\ link_call.op = "generate"
    /\ link_call.raised
    /\ link_call.active = MAX_ACTIVE_CODES_PER_USER
    /\ \E u \in LinkUsers :
           /\ Cardinality(ActiveCodes(u)) = MAX_ACTIVE_CODES_PER_USER
           /\ \E c \in link_codes : c.source_user_id = u /\ c.expires_at <= now

\* the rows of usage_tracking for a user and a day
UsageRows(u, d) == {r \in usage_tracking : r.user_id = u /\ r.date = d}

IsPro(u) == \E r \in users : r.id = u /\ r.pro_subscription

\* C31: a user with tracked calls on a day has exactly one usage row for
\* that day, holding their number, and none without calls; a free user may
\* call exactly when today's number is below FREE_USER_DAILY_LIMIT, a pro
\* user always.
C31_DailyQuota ==
    /\ \A u \in UsageUsers : \A d \in Days :
           IF tracked[u][d] = 0 THEN UsageRows(u, d) = {}
           ELSE /\ Cardinality(UsageRows(u, d)) = 1
                /\ \A r \in UsageRows(u, d) : r.llm_calls = tracked[u][d]
    /\ \A u \in UsageUsers :
           can_make_llm_call(u)[1] <=> (IsPro(u) \/ tracked[u][now] < FREE_USER_DAILY_LIMIT)

\* a free user has used up the day's calls and is refused, while a pro user
\* with as many calls is not
C31_Witness ==
    /\ \E u \in UsageUsers :
           ~IsPro(u) /\ tracked[u][now] = FREE_USER_DAILY_LIMIT /\ ~can_make_llm_call(u)[1]
    /\ \E u \in UsageUsers :
           IsPro(u) /\ tracked[u][now] >= FREE_USER_DAILY_LIMIT /\ can_make_llm_call(u)[1]

\* the step in which the call of s runs its retrieval: the entry of a send
\* variant, up to the provider call
Retrieves(s) ==
    /\ pc[s] = "idle"
    /\ pc'[s] = "generating"
    /\ req'[s].variant \in {"insight", "standalone"}

\* C32: the step in which a turn runs its retrieval leaves the messages,
\* the conversations and the summary cache as they were, and the rows the
\* turn's session holds uncommitted, whether the retrieval returned hits,
\* nothing, or failed.
C32_RetrievalReadOnly ==
    [][\A s \in Sessions :
          Retrieves(s) => /\ messages' = messages
                          /\ chats' = chats
                          /\ summaries' = summaries
                          /\ pending'[s] = pending[s]]_vars

\* a retrieval that failed in the database and degraded to no context,
\* with messages of the user stored
C32_Witness ==
    \E s \in Sessions :
        /\ pc[s] = "generating"
        /\ req[s].variant \in {"insight", "standalone"}
        /\ rag_context[s] = <<>>
        /\ tx_aborted[s]
        /\ \E m \in messages : Owner(m) = req[s].user_id

\* ---------------------------------------------------------------- C33
\* the stage a call is in: Retrieving happens inside the entry step, so a
\* call at rest is Idle (0), Generating/Buffering-Tokens (2), Persisting (3),
\* committed and yielding its closing pairs (4), or ended (5)
StageRank(p) ==
    CASE p = "idle" -> 0
      [] p \in {"generating", "tok"} -> 2
      [] p = "persisting" -> 3
      [] p \in {"marker", "fin"} -> 4
      [] OTHER -> 5

MiddleStages == {"generating", "tok", "persisting"}

\* the step in which the call of s ends with an error
Fails(s) == outcome'[s] = "raised" /\ outcome[s] # "raised"

\* the entry step of send_standalone_message_stream refusing a chat that is
\* not the caller's
Rejects(s) ==
    /\ pc[s] = "idle"
    /\ req'[s].variant = "standalone"
    /\ OwnedChat(req'[s].conv, req'[s].user_id) = {}

StageOrder(s, refusal) ==
    /\ pc[s] # "ended" => StageRank(pc'[s]) >= StageRank(pc[s])
    /\ pc[s] = "ended" => pc'[s] \in {"ended", "idle"}
    /\ (pc[s] = "ended" /\ pc'[s] = "ended") => outcome'[s] = outcome[s]
    /\ (llm'[s] /\ ~llm[s]) => pc[s] = "generating"
    /\ pc[s] \in MiddleStages => rag_context'[s] = rag_context[s]
    /\ Fails(s) => pc[s] \in MiddleStages \/ (refusal /\ Rejects(s))
    /\ (outcome'[s] = "done" /\ outcome[s] # "done") => pc[s] = "fin"

\* C33 as stated: a call only moves forward through Idle, Retrieving,
\* Generating/Buffering-Tokens, Persisting, Done; the provider stream is
\* opened only once retrieval has finished; Failed is entered only from a
\* middle state; Done and Failed are terminal and exclude each other
C33_FailedOnlyFromMiddle ==
    [][\A s \in Sessions : StageOrder(s, FALSE)]_vars

\* C33 amended: the same, except that send_standalone_message_stream also
\* fails straight from Idle when the chat is not the caller's
C33_StagesInOrder ==
    [][\A s \in Sessions : StageOrder(s, TRUE)]_vars

\* a call refused at entry, in a store that holds an earlier committed turn,
\* and never having opened the provider stream
C33_Witness ==
    \E s \in Sessions :
        /\ pc[s] = "ended"
        /\ outcome[s] = "raised"
        /\ req[s].variant = "standalone"
        /\ ~llm[s]
        /\ messages # {}

\* ---------------------------------------------------------------- C34
\* prompts.add_rag_context with the value ChatService passes: the list of
\* hit rows goes into f"{base_prompt}\n\n{rag_context}", which writes one
\* object representation per hit; an empty list adds nothing
add_rag_context(hits) ==
    [i \in 1..Len(hits) |-> [kind |-> "repr", msg |-> hits[i]]]

\* format(group_and_expand(retrieve(scope, user_message, conversation)))
EnhancedBlock(r, ai) ==
    LET relevant == _get_relevant_messages(r.variant, r.user_id, r.user_message,
                                           r.conv, RAG_CONTEXT_LIMIT, TRUE)
        keys == GroupKeys(relevant)
    IN  format_enhanced_rag_context(
            [i \in 1..Len(keys) |-> MergedRagContext(r.variant, keys[i], relevant, ai)])

\* C34: the context block a turn hands to the provider is the formatted,
\* grouped and expanded retrieval (one excerpt with one summary for each past
\* conversation), or empty when retrieval found nothing or failed
C34_PromptHoldsEnhancedContext ==
    [][\A s \in Sessions :
          Retrieves(s) =>
              \/ add_rag_context(rag_context'[s]) = <<>>
              \/ \E ai \in {"text", "none"} :
                    add_rag_context(rag_context'[s]) = EnhancedBlock(req'[s], ai)]_vars

\* ---------------------------------------------------------------- C35
\* the texts _generate_summary can give for the rows a call counted
SummariesOf(rows, conversation_type, conversation_id) ==
    {_generate_summary(rows, conversation_type, conversation_id, ai) : ai \in SummaryOutcomes}

\* C35: a summary call that returns the cached text without a request to
\* the provider returns a text that was generated from the messages the
\* conversation has now.
C35_CachedTextOfCurrentMessages ==
    returned.hit =>
        returned.text \in SummariesOf(returned.rows, returned.conversation_type,
                                      returned.conversation_id)

\* ---------------------------------------------------------------- C36
\* positions of the pairs with a stop reason among pairs
WithReason(pairs) == {i \in 1..Len(pairs) : pairs[i][2] # NoReason}

\* the call of s returned after its closing pair
Succeeded(s) == pc[s] = "ended" /\ outcome[s] = "done"

\* C36: of the pairs a call has yielded only the last can carry a stop
\* reason, and it has no text; a call that succeeded on a provider stream
\* with exactly one stop reason has yielded that pair, with the provider's
\* stop reason, as its last.
C36_OneFinalPair ==
    \A s \in Sessions :
        /\ WithReason(out[s]) \subseteq {Len(out[s])}
        /\ \A i \in WithReason(out[s]) : out[s][i][1] = <<>>
        /\ (Succeeded(s) /\ Cardinality(WithReason(emitted[s])) = 1) =>
               /\ WithReason(out[s]) = {Len(out[s])}
               /\ \A i \in WithReason(emitted[s]) :
                      out[s][Len(out[s])] = <<<<>>, emitted[s][i][2]>>

\* a create call that streamed a token, cut at the length limit, has
\* returned: tokens, the chat-id marker, then the closing pair
C36_Witness ==
    \E s \in Sessions :
        /\ Succeeded(s)
        /\ req[s].variant = "create"
        /\ Len(out[s]) >= 3
        /\ out[s][Len(out[s])] = <<<<>>, "max_tokens">>

\* ---------------------------------------------------------------- C37
\* the rows the call of s has committed belong to its conversation and its
\* user, and the reply is the text of its own provider chunks
OwnTurn(s) ==
    \A m \in TurnMessages(s) :
        /\ m.conv = req[s].conv
        /\ m.kind = (IF req[s].variant = "insight" THEN "insight" ELSE "standalone")
        /\ Owner(m) = req[s].user_id
        /\ m.role = "assistant" => m.content = Concat(emitted[s])
        /\ m.role = "user" => m.content = req[s].user_message

\* the step in which the call of s leaves the Persisting step
Persists(s) == pc[s] = "persisting" /\ pc'[s] # "persisting"

\* C37: with the turns of two users interleaved chunk by chunk, the rows
\* each turn commits are under its own conversation and owner and its reply
\* is the concatenation of its own chunks; no step of one call removes a
\* committed row, and a call that reaches its commit writes both its rows
\* whatever became of the other call.
C37_TurnsIndependent ==
    /\ [](\A s \in Sessions : ~Idle(s) => OwnTurn(s))
    /\ [][messages \subseteq messages']_vars
    /\ [][\A s \in Sessions :
              Persists(s) =>
                  Cardinality({m \in messages' : m.turn = turn[s]}) = 2]_vars

\* user 2 committed a turn of its own chunks while the call of user 1, which
\* had streamed another chunk in between, has failed
C37_Witness ==
    /\ outcome[1] = "raised" /\ emitted[1] # <<>> /\ Concat(emitted[1]) = <<"a">>
    /\ pc[2] \in {"marker", "fin"}
    /\ \E m \in TurnMessages(2) : m.role = "assistant" /\ m.content = <<"b", "b">>
    /\ turn[1] < turn[2]

\* ---------------------------------------------------------------- C38
\* a returned call whose request to the provider raised or gave nothing
LlmFailed(r) == r.step = "store" /\ r.rows # {} /\ r.ai \in {"none", "raise"}

\* the fixed text _generate_summary returns in that case
FallbackOf(ai) ==
    IF ai = "raise" THEN <<"Previous conversation">>
    ELSE <<"Discussion about biblical topics">>

\* the fallback went into the cache row with the count the call saw
FallbackStored == Upserted /\ returned'.text = FallbackOf(returned'.ai)

\* the next call on the same messages answers from the cache
FallbackReused == returned'.llm = 0 /\ returned'.hit /\ returned'.text = returned.text

====
